---- MODULE Spec2Model ----
(***************************************************************************)
(* Verification model of the grok2api streaming core:                      *)
(*   - the tool-usage card stream parser   (src/src/grok/rateLimits.ts)    *)
(*   - the conversation store              (src/src/repo/conversations.ts) *)
(*   - the NDJSON -> SSE stream transformer (src/unnamed/part_000)         *)
(*                                                                         *)
(* Text is modelled as a sequence of symbols.  Every symbol stands for the *)
(* run of characters that spells its name ("xai:" is the four characters   *)
(* x a i :), so that the string searches of the code (indexOf,             *)
(* lastIndexOf, startsWith, slice) become the same searches on sequences   *)
(* and a text can be cut between any two symbols.  The marker "<xai:" is   *)
(* the two symbols "<" and "xai:" wherever it occurs, so a cut can fall    *)
(* inside it; a closing tag is one symbol.                                 *)
(***************************************************************************)
EXTENDS Integers, Sequences, FiniteSets, TLC

VARIABLES
    \* ---- tool-usage card parser (ToolUsageCardStreamParser) ----
    cardInput,      \* the whole text handed to the parser, piece by piece
    cardPos,        \* number of symbols of cardInput consumed so far
    cardEmit,       \* opts.emitLines
    cardBuffer,     \* ToolUsageCardStreamParser.buffer
    cardText,       \* concatenation of the text results so far
    cardLines,      \* concatenation of the lines results so far
    cardPc,         \* "feed" | "flushed" | "idle"
    \* ---- conversation store (table conversations) ----
    rows,           \* the rows of the table, at most one per primary key
    storeOp,        \* the last store operation: its name, arguments, result
    \* ---- NDJSON -> SSE stream transformer (createOpenAiStreamFromGrokNdjson) ----
    cfg,            \* settings of the stream and whether grokResp.body exists
    pc,             \* where start() stands
    tr,             \* the locals of start(), the controller, the callback logs
    curFrame,       \* the frame whose handling awaits onMeta
    upstream,       \* bytes the upstream has sent and the reader has not returned
    nSent,          \* number of lines the upstream has sent
    received,       \* every byte the reader has returned so far
    frames,         \* every line handed to JSON.parse so far
    now,            \* Date.now(), relative to startTime
    cancelled,      \* the client has disconnected (the stream was cancelled)
    \* ---- history hasher (computeHistoryHash) ----
    messages,       \* the message array of the conversation so far
    hashOp,         \* the last step on the array: its name, arguments, result
    \* ---- gRPC-web codec (encodeGrpcWebFrame, parseGrpcWebResponse) ----
    grpcBody,       \* the bytes of the response body
    grpcOp,         \* the last codec call: its name, arguments, result
    \* ---- account settings flow (runAccountSettingsFlow) ----
    flow,           \* the call of runAccountSettingsFlow: position, requests, results
    \* ---- rate-limit normaliser ----
    rl,             \* the rate-limit normaliser: payload, pending calls, candidates, result
    \* ---- requests in flight ----
    inflight        \* store requests between their statements: cleanup, trim, upserts

cardVars == <<cardInput, cardPos, cardEmit, cardBuffer, cardText, cardLines, cardPc>>
storeVars == <<rows, storeOp>>
streamVars == <<cfg, pc, tr, curFrame, upstream, nSent, received, frames, now, cancelled>>
hashVars == <<messages, hashOp>>
grpcVars == <<grpcBody, grpcOp>>
flowVars == <<flow>>
rateVars == <<rl>>
raceVars == <<inflight>>

vars == <<cardInput, cardPos, cardEmit, cardBuffer, cardText, cardLines, cardPc,
          rows, storeOp,
          cfg, pc, tr, curFrame, upstream, nSent, received, frames, now, cancelled,
          messages, hashOp, grpcBody, grpcOp,
          flow,
          rl,
          inflight>>

\* the components a specification leaves alone
notCard == <<storeVars, streamVars, hashVars, grpcVars, flowVars, rateVars, raceVars>>
notStore == <<cardVars, streamVars, hashVars, grpcVars, flowVars, rateVars, raceVars>>
notStream == <<cardVars, storeVars, hashVars, grpcVars, flowVars, rateVars, raceVars>>
notHash == <<cardVars, storeVars, streamVars, grpcVars, flowVars, rateVars, raceVars>>
notGrpc == <<cardVars, storeVars, streamVars, hashVars, flowVars, rateVars, raceVars>>
notFlow == <<cardVars, storeVars, streamVars, hashVars, grpcVars, rateVars, raceVars>>
notRate == <<cardVars, storeVars, streamVars, hashVars, grpcVars, flowVars, raceVars>>
notRace == <<cardVars, storeVars, streamVars, hashVars, grpcVars, flowVars, rateVars>>

\* no account settings flow is running
FlowIdle ==
    /\ flow = [pc |-> "idle"]

\* the normaliser is not in use
RateIdle ==
    /\ rl = [pc |-> "idle"]

\* no store request is between two statements
RaceIdle ==
    /\ inflight = [pc |-> "idle"]

\* the codec is not in use
GrpcIdle ==
    /\ grpcBody = <<>>
    /\ grpcOp = [op |-> "none"]

\* the hasher is not in use
HashIdle ==
    /\ messages = <<>>
    /\ hashOp = [op |-> "none"]

\* the parser is not in use
CardIdle ==
    /\ cardInput = <<>>
    /\ cardEmit = FALSE
    /\ cardPos = 0
    /\ cardBuffer = <<>>
    /\ cardText = <<>>
    /\ cardLines = <<>>
    /\ cardPc = "idle"

\* the store is not in use
StoreIdle ==
    /\ rows = {}
    /\ storeOp = [op |-> "none"]

\* no stream is in use
StreamIdle ==
    /\ cfg = [idle |-> TRUE]
    /\ pc = "idle"
    /\ tr = [idle |-> TRUE]
    /\ curFrame = "-"
    /\ upstream = <<>>
    /\ nSent = 0
    /\ received = <<>>
    /\ frames = <<>>
    /\ now = 0
    /\ cancelled = FALSE

(***************************************************************************)
(* Sequence helpers with the 0-based index conventions of the source.      *)
(***************************************************************************)
Min2(a, b) == IF a <= b THEN a ELSE b
Max2(a, b) == IF a >= b THEN a ELSE b

\* buffer.slice(a, b)
Slice(s, a, b) == SubSeq(s, a + 1, b)
\* buffer.slice(a)
SliceFrom(s, a) == SubSeq(s, a + 1, Len(s))

\* String.prototype.toLowerCase on one symbol / on a text
LowerSym(c) ==
    CASE c = "XAI:" -> "xai:"
      [] c = "TOOL_NAME>" -> "tool_name>"
      [] OTHER -> c
ToLowerCase(s) == [i \in 1..Len(s) |-> LowerSym(s[i])]

\* pat occurs in s at 0-based offset i
MatchAt(s, pat, i) ==
    /\ i >= 0
    /\ i + Len(pat) <= Len(s)
    /\ \A j \in 1..Len(pat) : s[i + j] = pat[j]

\* s.indexOf(pat, from), -1 when absent
IndexOfFrom(s, pat, from) ==
    LET hits == {i \in from..(Len(s) - Len(pat)) : MatchAt(s, pat, i)}
    IN IF hits = {} THEN -1 ELSE CHOOSE i \in hits : \A k \in hits : i <= k
IndexOf(s, pat) == IndexOfFrom(s, pat, 0)

\* s.lastIndexOf(pat), -1 when absent
LastIndexOf(s, pat) ==
    LET hits == {i \in 0..(Len(s) - Len(pat)) : MatchAt(s, pat, i)}
    IN IF hits = {} THEN -1 ELSE CHOOSE i \in hits : \A k \in hits : i >= k

StartsWith(s, pat) == MatchAt(s, pat, 0)

\* number of characters a symbol stands for, and String.length of a text
SymLen(c) ==
    CASE c \in {"xai:", "XAI:"} -> 4
      [] c = "tool_usage_card" -> 15
      [] c \in {"tool_name>", "TOOL_NAME>", "tool_args>"} -> 10
      [] c = "</xai:tool_usage_card>" -> 22
      [] c \in {"</xai:tool_name>", "</xai:tool_args>"} -> 16
      [] c = "<![CDATA[" -> 9
      [] c = "]]>" -> 3
      [] c = "web_search" -> 10
      [] c = "{\"query\":\"foo\"}" -> 15
      [] c = "{\"rollout_id\":\"r9\",\"thought\":\"x\"}" -> 32
      [] OTHER -> 1
RECURSIVE StrLen(_)
StrLen(s) == IF s = <<>> THEN 0 ELSE SymLen(Head(s)) + StrLen(Tail(s))

IsSpace(c) == c \in {" ", "\n"}

\* s.trim(), s.trimStart()
RECURSIVE TrimStart(_)
TrimStart(s) == IF s # <<>> /\ IsSpace(Head(s)) THEN TrimStart(Tail(s)) ELSE s
RECURSIVE TrimEnd(_)
TrimEnd(s) ==
    IF s # <<>> /\ IsSpace(s[Len(s)]) THEN TrimEnd(SubSeq(s, 1, Len(s) - 1)) ELSE s
Trim(s) == TrimEnd(TrimStart(s))

(***************************************************************************)
(* Tool-usage card parser: constants (rateLimits.ts 388-393).              *)
(***************************************************************************)
TOOL_USAGE_OPEN  == <<"<", "xai:", "tool_usage_card">>
TOOL_USAGE_CLOSE == <<"</xai:tool_usage_card>">>
TOOL_NAME_OPEN   == <<"<", "xai:", "tool_name>">>
TOOL_NAME_CLOSE  == <<"</xai:tool_name>">>
TOOL_ARGS_OPEN   == <<"<", "xai:", "tool_args>">>
TOOL_ARGS_CLOSE  == <<"</xai:tool_args>">>
PARTIAL_MARKER   == <<"<", "xai:">>
CDATA_OPEN       == <<"<![CDATA[">>
CDATA_CLOSE      == <<"]]>">>
PartialWindow    == 64

(***************************************************************************)
(* Card normalisation (rateLimits.ts 402-565).  The CDATA payload of a     *)
(* card is one symbol holding a JSON document, or plain text.              *)
(***************************************************************************)
JsonQuery   == "{\"query\":\"foo\"}"
JsonRollout == "{\"rollout_id\":\"r9\",\"thought\":\"x\"}"

\* a card with plain text of three lines, the second blank, and a card with
\* a blank payload
PlainCard(payload) ==
    TOOL_NAME_OPEN \o <<"b">> \o TOOL_NAME_CLOSE
        \o TOOL_ARGS_OPEN \o CDATA_OPEN \o payload \o CDATA_CLOSE \o TOOL_ARGS_CLOSE
MultiCard == PlainCard(<<"p", "\n", " ", "\n", "q">>)
BlankCard == PlainCard(<<" ">>)

\* two well-formed cards: the name form and the wrapped form
NameCard ==
    TOOL_NAME_OPEN \o <<"web_search">> \o TOOL_NAME_CLOSE
        \o TOOL_ARGS_OPEN \o CDATA_OPEN \o <<JsonQuery>> \o CDATA_CLOSE \o TOOL_ARGS_CLOSE
UsageCard == TOOL_USAGE_OPEN \o <<">">> \o NameCard \o TOOL_USAGE_CLOSE

\* a symbol that contains the character "<"
HasLt(c) ==
    c \in {"<", "<![CDATA[", "</xai:tool_usage_card>", "</xai:tool_name>", "</xai:tool_args>"}

\* first 0-based offset >= k of s that does not hold white space
RECURSIVE SkipSpaces(_, _)
SkipSpaces(s, k) ==
    IF k < Len(s) /\ IsSpace(s[k + 1]) THEN SkipSpaces(s, k + 1) ELSE k

\* normalizeToolType
normalizeToolType(toolName) ==
    LET raw == Trim(toolName)
        normalized == ToLowerCase(raw)
    IN IF normalized = <<"web_search">> THEN <<"WebSearch">>
       ELSE IF raw = <<>> THEN <<"Unknown">> ELSE raw

\* findByPreferredKeys(parsedArgs, ROLLOUT_KEYS) on parseToolArgs(rawArgs)
rolloutFromArgs(rawArgs) ==
    IF rawArgs = <<JsonRollout>> THEN <<"r9">> ELSE <<>>

\* resolveRolloutId
resolveRolloutId(rawArgs, fallbackRolloutId) ==
    LET fromArgs == rolloutFromArgs(rawArgs)
        fallback == Trim(fallbackRolloutId)
    IN IF fromArgs # <<>> THEN fromArgs
       ELSE IF fallback # <<>> THEN fallback ELSE <<"-">>

\* resolveContent: preferred key, else first non-metadata scalar, else the
\* raw text; normalizeText trims it.
resolveContent(type, rawArgs) ==
    IF rawArgs = <<JsonQuery>> THEN <<"foo">>
    ELSE IF rawArgs = <<JsonRollout>> THEN <<"x">>
    ELSE Trim(rawArgs)

\* text.split("\n").map((line) => line.trim()).filter(Boolean); cur is the
\* line being read
RECURSIVE contentLines(_, _)
contentLines(text, cur) ==
    IF text = <<>> THEN (IF Trim(cur) = <<>> THEN <<>> ELSE <<Trim(cur)>>)
    ELSE IF Head(text) = "\n"
    THEN (IF Trim(cur) = <<>> THEN <<>> ELSE <<Trim(cur)>>) \o contentLines(Tail(text), <<>>)
    ELSE contentLines(Tail(text), Append(cur, Head(text)))

\* lines.map((line) => `${prefix} ${line}`).join("\n")
RECURSIVE prefixedLines(_, _)
prefixedLines(prefix, lines) ==
    IF lines = <<>> THEN <<>>
    ELSE prefix \o <<" ">> \o Head(lines)
            \o (IF Tail(lines) = <<>> THEN <<>> ELSE <<"\n">> \o prefixedLines(prefix, Tail(lines)))

formatCardLine_FirstLine(card) ==
    LET prefix == <<"[">> \o (IF card.rolloutId = <<>> THEN <<"-">> ELSE card.rolloutId)
                    \o <<"]", "[">> \o card.type \o <<"]">>
        lines == contentLines(Trim(card.content), <<>>)
    IN IF lines = <<>> THEN prefix ELSE prefix \o <<" ">> \o Head(lines)

\* formatCardLine: "[rolloutId][type] line" for every non-empty content
\* line, joined by "\n" into one string; the prefix alone when the content
\* is empty.
formatCardLine(card) ==
    LET prefix == <<"[">> \o (IF card.rolloutId = <<>> THEN <<"-">> ELSE card.rolloutId)
                    \o <<"]", "[">> \o card.type \o <<"]">>
        lines == contentLines(Trim(card.content), <<>>)
    IN IF lines = <<>> THEN prefix ELSE prefixedLines(prefix, lines)

\* /<xai:tool_name>\s*([^<]+?)\s*<\/xai:tool_name>/i : offsets (i, j) with
\* the opening tag at i, the closing tag at j and no "<" in between.
toolMatches(lower) ==
    LET opens == {i \in 0..Len(lower) : MatchAt(lower, TOOL_NAME_OPEN, i)}
        closes == {j \in 0..Len(lower) : MatchAt(lower, TOOL_NAME_CLOSE, j)}
    IN {m \in opens \X closes :
        /\ m[2] > m[1] + Len(TOOL_NAME_OPEN)
        /\ \A k \in (m[1] + Len(TOOL_NAME_OPEN) + 1)..m[2] : ~HasLt(lower[k])}

\* /<xai:tool_args>\s*<!\[CDATA\[([\s\S]*?)\]\]>\s*<\/xai:tool_args>/i :
\* offsets (i, a, b): opening tag at i, payload is slice(a, b).
argsMatches(lower) ==
    LET opens == {i \in 0..Len(lower) :
                    /\ MatchAt(lower, TOOL_ARGS_OPEN, i)
                    /\ MatchAt(lower, CDATA_OPEN, SkipSpaces(lower, i + Len(TOOL_ARGS_OPEN)))}
        ends == {b \in 0..Len(lower) :
                    /\ MatchAt(lower, CDATA_CLOSE, b)
                    /\ MatchAt(lower, TOOL_ARGS_CLOSE, SkipSpaces(lower, b + Len(CDATA_CLOSE)))}
    IN {<<m[1], SkipSpaces(lower, m[1] + Len(TOOL_ARGS_OPEN)) + Len(CDATA_OPEN), m[2]>> :
            m \in {n \in opens \X ends :
                    n[2] >= SkipSpaces(lower, n[1] + Len(TOOL_ARGS_OPEN)) + Len(CDATA_OPEN)}}

\* the leftmost match, and for it the shortest capture
FirstMatch2(ms) ==
    CHOOSE m \in ms : \A n \in ms : m[1] < n[1] \/ (m[1] = n[1] /\ m[2] <= n[2])
FirstMatch3(ms) ==
    CHOOSE m \in ms : \A n \in ms : m[1] < n[1] \/ (m[1] = n[1] /\ m[3] <= n[3])

NoCard == [ok |-> FALSE, rolloutId |-> <<>>, type |-> <<>>, content |-> <<>>]

\* name.replace(/^<!\[CDATA\[|\]\]>$/g, "").trim()
stripCdata(name) ==
    LET a == IF name # <<>> /\ Head(name) = "<![CDATA[" THEN Tail(name) ELSE name
        b == IF a # <<>> /\ a[Len(a)] = "]]>" THEN SubSeq(a, 1, Len(a) - 1) ELSE a
    IN Trim(b)

\* parseCard(fragment, fallbackRolloutId), in the order of the source: the
\* two matches, their captures, the tool name, the card
cardOfType(type, rawArgs, fallbackRolloutId) ==
    [ok |-> TRUE,
     rolloutId |-> resolveRolloutId(rawArgs, fallbackRolloutId),
     type |-> type,
     content |-> resolveContent(type, rawArgs)]
cardFromName(toolName, rawArgs, fallbackRolloutId) ==
    IF toolName = <<>> THEN NoCard
    ELSE cardOfType(normalizeToolType(toolName), rawArgs, fallbackRolloutId)
cardFromGroups(group1, payload, fallbackRolloutId) ==
    IF group1 = <<>> \/ payload = <<>> THEN NoCard
    ELSE cardFromName(stripCdata(group1), Trim(payload), fallbackRolloutId)
cardFromMatches(fragment, tm, am, fallbackRolloutId) ==
    cardFromGroups(Trim(Slice(fragment, tm[1] + Len(TOOL_NAME_OPEN), tm[2])),
                   Slice(fragment, am[2], am[3]), fallbackRolloutId)
matchCard(fragment, tms, ams, fallbackRolloutId) ==
    IF tms = {} \/ ams = {} THEN NoCard
    ELSE cardFromMatches(fragment, FirstMatch2(tms), FirstMatch3(ams), fallbackRolloutId)
parseCard(fragment, fallbackRolloutId) ==
    matchCard(fragment, toolMatches(ToLowerCase(fragment)), argsMatches(ToLowerCase(fragment)),
              fallbackRolloutId)

(***************************************************************************)
(* Span search (rateLimits.ts 567-613).                                    *)
(***************************************************************************)
findCardStart(buffer) ==
    LET lower == ToLowerCase(buffer)
        usageIdx == IndexOf(lower, TOOL_USAGE_OPEN)
        nameIdx == IndexOf(lower, TOOL_NAME_OPEN)
    IN IF usageIdx < 0 THEN nameIdx
       ELSE IF nameIdx < 0 THEN usageIdx
       ELSE Min2(usageIdx, nameIdx)

findPartialStart_NoWindow(buffer) == LastIndexOf(ToLowerCase(buffer), PARTIAL_MARKER)
findPartialStart(buffer) ==
    LET lower == ToLowerCase(buffer)
        idx == LastIndexOf(lower, PARTIAL_MARKER)
    IN IF idx < 0 THEN -1
       ELSE IF StrLen(SliceFrom(lower, idx)) > PartialWindow THEN -1
       ELSE idx

NoFragment == [ok |-> FALSE, end |-> 0]

extractCardFragment(buffer) ==
    LET lower == ToLowerCase(buffer)
    IN IF StartsWith(lower, TOOL_USAGE_OPEN)
       THEN LET closeIdx == IndexOf(lower, TOOL_USAGE_CLOSE)
            IN IF closeIdx < 0 THEN NoFragment
               ELSE [ok |-> TRUE, end |-> closeIdx + Len(TOOL_USAGE_CLOSE)]
       ELSE IF StartsWith(lower, TOOL_NAME_OPEN)
       THEN LET nameCloseIdx == IndexOf(lower, TOOL_NAME_CLOSE)
                argsCloseIdx ==
                    IF nameCloseIdx < 0 THEN -1
                    ELSE IndexOfFrom(lower, TOOL_ARGS_CLOSE, nameCloseIdx + Len(TOOL_NAME_CLOSE))
                end0 == argsCloseIdx + Len(TOOL_ARGS_CLOSE)
                afterWs == SkipSpaces(lower, end0)
            IN IF nameCloseIdx < 0 \/ argsCloseIdx < 0 THEN NoFragment
               ELSE IF MatchAt(lower, TOOL_USAGE_CLOSE, afterWs)
                    THEN [ok |-> TRUE, end |-> afterWs + Len(TOOL_USAGE_CLOSE)]
                    ELSE [ok |-> TRUE, end |-> end0]
       ELSE NoFragment

(***************************************************************************)
(* ToolUsageCardStreamParser (rateLimits.ts 615-682).  A parser result is  *)
(* [buffer, text, lines]: the buffer left behind and what was returned.    *)
(***************************************************************************)
RECURSIVE consumeLoop(_, _, _, _, _)
\* no card starts in the buffer (631-641)
holdPartial(buffer, partialStart, outText, outLines) ==
    IF partialStart < 0
    THEN [buffer |-> <<>>, text |-> outText \o buffer, lines |-> outLines]
    ELSE IF partialStart > 0
    THEN [buffer |-> SliceFrom(buffer, partialStart),
          text |-> outText \o Slice(buffer, 0, partialStart),
          lines |-> outLines]
    ELSE [buffer |-> buffer, text |-> outText, lines |-> outLines]
\* a complete fragment stands at the head of the buffer (652-661)
takeCard(rest, fragment, card, outText, outLines, emitLines, fallbackRolloutId) ==
    consumeLoop(rest,
                IF ~card.ok THEN outText \o fragment ELSE outText,
                IF card.ok /\ emitLines THEN Append(outLines, formatCardLine(card)) ELSE outLines,
                emitLines, fallbackRolloutId)
\* a card starts at the head of the buffer (649-651)
atCard(buffer, segment, outText, outLines, emitLines, fallbackRolloutId) ==
    IF ~segment.ok
    THEN [buffer |-> buffer, text |-> outText, lines |-> outLines]
    ELSE takeCard(SliceFrom(buffer, segment.end), Slice(buffer, 0, segment.end),
                  parseCard(Slice(buffer, 0, segment.end), Trim(fallbackRolloutId)),
                  outText, outLines, emitLines, fallbackRolloutId)
\* one round of the while loop, from the card start found (629-648)
fromStart(buffer, start, outText, outLines, emitLines, fallbackRolloutId) ==
    IF start < 0 THEN holdPartial(buffer, findPartialStart(buffer), outText, outLines)
    ELSE IF start > 0
    THEN consumeLoop(SliceFrom(buffer, start), outText \o Slice(buffer, 0, start),
                     outLines, emitLines, fallbackRolloutId)
    ELSE atCard(buffer, extractCardFragment(buffer), outText, outLines, emitLines,
                fallbackRolloutId)
consumeLoop(buffer, outText, outLines, emitLines, fallbackRolloutId) ==
    IF buffer = <<>>
    THEN [buffer |-> buffer, text |-> outText, lines |-> outLines]
    ELSE fromStart(buffer, findCardStart(buffer), outText, outLines, emitLines,
                   fallbackRolloutId)

\* consume(input, opts) on a parser whose buffer is `buffer`
consume(buffer, input, emitLines, fallbackRolloutId) ==
    consumeLoop(buffer \o input, <<>>, <<>>, emitLines, fallbackRolloutId)

\* flush(opts) on a parser whose buffer is `buffer`
releaseBuffer(result, emitIncompleteAsText) ==
    IF emitIncompleteAsText /\ result.buffer # <<>>
    THEN [buffer |-> <<>>, text |-> result.text \o result.buffer, lines |-> result.lines]
    ELSE result
flush(buffer, emitLines, fallbackRolloutId, emitIncompleteAsText) ==
    releaseBuffer(consume(buffer, <<>>, emitLines, fallbackRolloutId), emitIncompleteAsText)

\* replaceToolUsageCardsInText(input, opts)
joinResults(first, tail) ==
    [text |-> first.text \o tail.text, lines |-> first.lines \o tail.lines]
flushAfter(first, emitLines, fallbackRolloutId) ==
    joinResults(first, flush(first.buffer, emitLines, fallbackRolloutId, TRUE))
replaceToolUsageCardsInText(input, emitLines, fallbackRolloutId) ==
    flushAfter(consume(<<>>, input, emitLines, fallbackRolloutId), emitLines, fallbackRolloutId)

(***************************************************************************)
(* NDJSON -> SSE stream transformer (src/unnamed/part_000 158-510).        *)
(*                                                                         *)
(* The upstream body is a sequence of bytes.  A byte is written as the     *)
(* character it encodes, except the two bytes "c3" "a9" that encode the    *)
(* one character "e'".  A line is the characters between two "\n".  The    *)
(* line <<x, "}">> is the JSON text of the frame named x, <<"null">> is    *)
(* the JSON literal null, every other line fails JSON.parse.               *)
(***************************************************************************)
NL == "\n"
DefaultModel == "grok-4-mini-thinking-tahoe"

\* the typed view of a parsed frame that the transformer reads
NoFrame ==
    [isNull |-> FALSE,          \* JSON.parse gave null
     conversationId |-> "",     \* result.conversation.conversationId
     responseId |-> "",         \* the first non-empty responseId
     errorMessage |-> "",       \* error.message
     hasResponse |-> FALSE,     \* result.response is truthy
     userModel |-> "",          \* result.response.userResponse.model
     video |-> FALSE,           \* streamingVideoGenerationResponse is truthy
     progress |-> 0,
     videoUrl |-> FALSE,        \* videoUrl is a non-empty string
     imageAttachmentInfo |-> FALSE,
     modelResponse |-> "none",  \* "none" | "nourls" | "urls"
     hasMessage |-> FALSE,      \* modelResponse.message is a string
     message |-> <<>>,          \* modelResponse.message
     token |-> <<>>,            \* grok.token when it is a string
     isThinking |-> FALSE,
     messageTag |-> "",
     rolloutId |-> <<>>]
TextFrame == [NoFrame EXCEPT !.hasResponse = TRUE]

FrameIds == {"e'", "N", "P", "C", "M", "E", "V", "W", "I", "J", "U", "F"}

\* JSON.parse of the frame named x, seen through the accessors of the code
FrameOf(x) ==
    CASE x = "e'" -> [TextFrame EXCEPT !.isThinking = TRUE, !.token = <<"a">>,
                                       !.responseId = "r2"]
      [] x = "N" -> [TextFrame EXCEPT !.token = <<"b">>, !.responseId = "r1"]
      [] x = "P" -> [TextFrame EXCEPT !.isThinking = TRUE, !.token = <<"a", "<", "xai:">>]
      [] x = "C" -> [TextFrame EXCEPT !.isThinking = TRUE, !.token = UsageCard,
                                      !.rolloutId = <<"r1">>]
      [] x = "M" -> [NoFrame EXCEPT !.conversationId = "c1", !.responseId = "r1"]
      [] x = "E" -> [NoFrame EXCEPT !.errorMessage = "boom"]
      [] x = "V" -> [TextFrame EXCEPT !.video = TRUE, !.progress = 50]
      [] x = "W" -> [TextFrame EXCEPT !.video = TRUE, !.progress = 100, !.videoUrl = TRUE]
      [] x = "I" -> [TextFrame EXCEPT !.imageAttachmentInfo = TRUE, !.token = <<"b">>,
                                      !.userModel = "m2"]
      [] x = "J" -> [TextFrame EXCEPT !.video = TRUE, !.progress = 50,
                                      !.imageAttachmentInfo = TRUE]
      [] x = "U" -> [TextFrame EXCEPT !.modelResponse = "urls"]
      [] x = "F" -> [TextFrame EXCEPT !.modelResponse = "nourls", !.hasMessage = TRUE,
                                      !.message = <<"b">>]
      [] OTHER -> NoFrame

\* JSON.parse(line): [ok, data]
JsonParse(line) ==
    IF line = <<"null">> THEN [ok |-> TRUE, data |-> [NoFrame EXCEPT !.isNull = TRUE]]
    ELSE IF Len(line) = 2 /\ line[2] = "}" /\ line[1] \in FrameIds
    THEN [ok |-> TRUE, data |-> FrameOf(line[1])]
    ELSE [ok |-> FALSE, data |-> NoFrame]

\* new TextEncoder().encode of one character / of a text
EncodeChar(c) == IF c = "e'" THEN <<"c3", "a9">> ELSE <<c>>
RECURSIVE Encode(_)
Encode(cs) == IF cs = <<>> THEN <<>> ELSE EncodeChar(Head(cs)) \o Encode(Tail(cs))

\* decoder.decode(value, {stream: true}): the characters decoded from the
\* bytes and the bytes of an unfinished character kept for the next call;
\* a byte sequence that is not UTF-8 decodes to U+FFFD
RECURSIVE DecodeStream(_, _, _)
DecodeStream(pending, bytes, acc) ==
    IF bytes = <<>> THEN [text |-> acc, pending |-> pending]
    ELSE LET b == Head(bytes) IN
         IF pending = <<"c3">>
         THEN IF b = "a9" THEN DecodeStream(<<>>, Tail(bytes), Append(acc, "e'"))
              ELSE DecodeStream(<<>>, bytes, Append(acc, "U+FFFD"))
         ELSE IF b = "c3" THEN DecodeStream(<<"c3">>, Tail(bytes), acc)
         ELSE IF b = "a9" THEN DecodeStream(<<>>, Tail(bytes), Append(acc, "U+FFFD"))
         ELSE DecodeStream(<<>>, Tail(bytes), Append(acc, b))

\* makeChunk / makeDone: one SSE frame
makeChunk(model, content, finish_reason) ==
    [model |-> model, content |-> content, finish_reason |-> finish_reason]
makeDone == [model |-> "", content |-> <<"[DONE]">>, finish_reason |-> "done"]

\* the locals of start() after `const reader = body.getReader()`
InitTr ==
    [out |-> <<>>,                  \* the frames enqueued on the controller
     closed |-> FALSE,              \* controller.close() was called
     errored |-> FALSE,             \* start() rejected: the stream is errored
     thrown |-> FALSE,              \* an exception is propagating
     enqueueRaised |-> FALSE,       \* some controller.enqueue raised
     readerReleased |-> FALSE,
     finalStatus |-> 200,
     lastChunkTime |-> 0,
     firstReceived |-> FALSE,
     currentModel |-> DefaultModel,
     isImage |-> FALSE,
     thinkTagOpen |-> FALSE,
     lastIsThinking |-> FALSE,
     videoProgressStarted |-> FALSE,
     lastVideoProgress |-> -1,
     lastToolRolloutId |-> <<>>,
     toolBuffer |-> <<>>,           \* toolUsageParser.buffer
     meta |-> [grokConversationId |-> "", lastResponseId |-> ""],
     buffer |-> <<>>,
     decoderPending |-> <<>>,       \* bytes held by the TextDecoder
     metaCalls |-> <<>>,            \* the arguments of the onMeta calls
     finishCalls |-> <<>>,          \* the status of the onFinish calls
     caught |-> FALSE,              \* the catch block has run
     tripped |-> "none",            \* the bound that timed the stream out
     cause |-> "none"]              \* which path first ended the stream

\* controller.enqueue(frame): raises TypeError once the stream is closed or
\* cancelled.  A step of start() is skipped while an exception propagates.
enqueue(t, frame) ==
    IF t.thrown THEN t
    ELSE IF cancelled \/ t.closed
    THEN [t EXCEPT !.thrown = TRUE, !.enqueueRaised = TRUE]
    ELSE [t EXCEPT !.out = Append(@, frame)]

\* controller.close()
close(t) ==
    IF t.thrown THEN t
    ELSE IF cancelled \/ t.closed THEN [t EXCEPT !.thrown = TRUE]
    ELSE [t EXCEPT !.closed = TRUE]

shouldEmitToolLines == cfg.showThinking /\ cfg.showSearch

RECURSIVE JoinLines(_)
JoinLines(lines) ==
    IF lines = <<>> THEN <<>> ELSE Head(lines) \o <<NL>> \o JoinLines(Tail(lines))

\* emitTextDelta (217-241)
emitTextDelta(t, text, lines, isThinking, messageTag) ==
    IF t.thrown THEN t
    ELSE LET opens == cfg.showThinking /\ isThinking /\ ~t.thinkTagOpen
             closes == cfg.showThinking /\ ~isThinking /\ t.thinkTagOpen
             wrap == IF opens THEN <<"<think>", NL>>
                     ELSE IF closes THEN <<NL, "</think>", NL>> ELSE <<>>
             body == IF text = <<>> THEN <<>>
                     ELSE IF messageTag = "header" THEN <<NL, NL>> \o text \o <<NL, NL>>
                     ELSE text
             shown == IF ~isThinking \/ cfg.showThinking THEN JoinLines(lines) \o body
                      ELSE <<>>
             payload == wrap \o shown
             t1 == [t EXCEPT !.thinkTagOpen = IF opens THEN TRUE
                                              ELSE IF closes THEN FALSE ELSE @]
             t2 == IF payload # <<>> THEN enqueue(t1, makeChunk(t1.currentModel, payload, "null"))
                   ELSE t1
         IN IF t2.thrown THEN t2 ELSE [t2 EXCEPT !.lastIsThinking = isThinking]

\* flushToolBuffer (243-251)
emitFlushed(t, flushed, isThinkingFrame) ==
    IF flushed.text = <<>> /\ flushed.lines = <<>>
    THEN [t EXCEPT !.toolBuffer = flushed.buffer]
    ELSE emitTextDelta([t EXCEPT !.toolBuffer = flushed.buffer], flushed.text, flushed.lines,
                       isThinkingFrame, "")
flushToolBuffer(t, isThinkingFrame) ==
    IF t.thrown THEN t
    ELSE emitFlushed(t, flush(t.toolBuffer, shouldEmitToolLines, t.lastToolRolloutId, TRUE),
                     isThinkingFrame)

\* closeThinkWrappers (253-262)
closeThinkWrappers_TextOnly(t) ==
    IF t.thrown THEN t
    ELSE IF cfg.showThinking /\ t.thinkTagOpen
    THEN LET e == enqueue(t, makeChunk(t.currentModel, <<NL, "</think>", NL>>, "null"))
         IN IF e.thrown THEN e ELSE [e EXCEPT !.thinkTagOpen = FALSE]
    ELSE t
closeThinkWrappers(t) ==
    IF t.thrown THEN t
    ELSE LET t1 == IF cfg.showThinking /\ t.thinkTagOpen
                   THEN LET e == enqueue(t, makeChunk(t.currentModel, <<NL, "</think>", NL>>, "null"))
                        IN IF e.thrown THEN e ELSE [e EXCEPT !.thinkTagOpen = FALSE]
                   ELSE t
         IN IF t1.thrown THEN t1
            ELSE IF cfg.showThinking /\ t1.videoProgressStarted
            THEN LET e == enqueue(t1, makeChunk(t1.currentModel, <<"</think>", NL>>, "null"))
                 IN IF e.thrown THEN e ELSE [e EXCEPT !.videoProgressStarted = FALSE]
            ELSE t1

\* flushStop (264-269)
\* a chunk with a finish_reason, then [DONE]
finalChunks(t, content, finish_reason) ==
    enqueue(enqueue(t, makeChunk(t.currentModel, content, finish_reason)), makeDone)
flushStop(t) ==
    finalChunks(closeThinkWrappers(flushToolBuffer(t, t.lastIsThinking)), <<>>, "stop")

\* passthroughFilteredTags (211) and the filter of the text branch (466)
tokenIsFiltered(token) ==
    LET passthrough == {tag \in cfg.filteredTags : ToLowerCase(tag) # <<"xai:", "tool_usage_card">>}
    IN token # <<>> /\ \E tag \in passthrough : IndexOf(token, tag) >= 0

\* the video branch (375-424)
videoBranch_AnyProgress(t, f) ==
    LET rises == f.progress >= t.lastVideoProgress
        opens == rises /\ cfg.showThinking /\ ~t.videoProgressStarted
        ends == rises /\ cfg.showThinking /\ t.videoProgressStarted /\ f.progress >= 100
        pct == <<"video-progress", ToString(f.progress), "%">>
        msg == IF opens THEN <<"<think>">> \o pct \o <<NL>>
               ELSE IF ends THEN pct \o <<"</think>", NL>>
               ELSE pct \o <<NL>>
        t1 == [t EXCEPT !.lastVideoProgress = IF rises THEN f.progress ELSE @,
                        !.videoProgressStarted = IF opens THEN TRUE
                                                 ELSE IF ends THEN FALSE ELSE @]
        t2 == IF rises /\ cfg.showThinking
              THEN enqueue(t1, makeChunk(t1.currentModel, msg, "null")) ELSE t1
    IN IF f.videoUrl THEN enqueue(t2, makeChunk(t2.currentModel, <<"<video>">>, "null"))
       ELSE t2
videoBranch(t, f) ==
    LET rises == f.progress > t.lastVideoProgress
        opens == rises /\ cfg.showThinking /\ ~t.videoProgressStarted
        ends == rises /\ cfg.showThinking /\ t.videoProgressStarted /\ f.progress >= 100
        pct == <<"video-progress", ToString(f.progress), "%">>
        msg == IF opens THEN <<"<think>">> \o pct \o <<NL>>
               ELSE IF ends THEN pct \o <<"</think>", NL>>
               ELSE pct \o <<NL>>
        t1 == [t EXCEPT !.lastVideoProgress = IF rises THEN f.progress ELSE @,
                        !.videoProgressStarted = IF opens THEN TRUE
                                                 ELSE IF ends THEN FALSE ELSE @]
        t2 == IF rises /\ cfg.showThinking
              THEN enqueue(t1, makeChunk(t1.currentModel, msg, "null")) ELSE t1
    IN IF f.videoUrl THEN enqueue(t2, makeChunk(t2.currentModel, <<"<video>">>, "null"))
       ELSE t2

\* the text branch (457-478)
emitParsed(t, parsed, f) ==
    emitTextDelta([t EXCEPT !.toolBuffer = parsed.buffer], parsed.text, parsed.lines,
                  f.isThinking, f.messageTag)
consumeToken(t, f) ==
    emitParsed(t, consume(t.toolBuffer, IF tokenIsFiltered(f.token) THEN <<>> ELSE f.token,
                          shouldEmitToolLines, t.lastToolRolloutId), f)
textBranch(t, f) ==
    consumeToken([t EXCEPT !.lastToolRolloutId =
                               IF Trim(f.rolloutId) # <<>> THEN Trim(f.rolloutId) ELSE @], f)

\* if (grok.imageAttachmentInfo) isImage = true (426)
setImage_PerFrame(t, f) == [t EXCEPT !.isImage = f.imageAttachmentInfo]
setImage(t, f) == [t EXCEPT !.isImage = @ \/ f.imageAttachmentInfo]

\* the frame handling after `await updateMeta` (349-478): [t, finish], where
\* finish says that the handler has reached its call of onFinish
frameRest(t, f) ==
    LET t0 == [t EXCEPT !.firstReceived = TRUE, !.lastChunkTime = now] IN
    IF f.errorMessage # ""
    THEN [t |-> finalChunks(closeThinkWrappers(flushToolBuffer(
                                [t0 EXCEPT !.finalStatus = 500], t0.lastIsThinking)),
                            <<"Error: ", f.errorMessage>>, "stop"),
          finish |-> TRUE, cause |-> "errorFrame"]
    ELSE IF ~f.hasResponse THEN [t |-> t0, finish |-> FALSE, cause |-> "none"]
    ELSE LET t1 == [t0 EXCEPT !.currentModel = IF f.userModel # "" THEN f.userModel ELSE @] IN
         IF f.video THEN [t |-> videoBranch(t1, f), finish |-> FALSE, cause |-> "none"]
         ELSE LET t2 == setImage(t1, f) IN
              IF t2.isImage
              THEN IF f.modelResponse = "urls"
                   THEN LET a == enqueue(t2, makeChunk(t2.currentModel, <<"![Generated Image]">>, "stop"))
                            b == closeThinkWrappers(a)
                        IN [t |-> enqueue(b, makeDone), finish |-> TRUE, cause |-> "image"]
                   ELSE IF f.modelResponse = "none" /\ f.token # <<>>
                   THEN [t |-> enqueue(t2, makeChunk(t2.currentModel, f.token, "null")),
                         finish |-> FALSE, cause |-> "none"]
                   ELSE [t |-> t2, finish |-> FALSE, cause |-> "none"]
              ELSE [t |-> textBranch(t2, f), finish |-> FALSE, cause |-> "none"]

updateMeta_AlwaysNotify(t, f) ==
    LET meta == [grokConversationId |-> IF f.conversationId # "" THEN f.conversationId
                                        ELSE t.meta.grokConversationId,
                 lastResponseId |-> IF f.responseId # "" THEN f.responseId
                                    ELSE t.meta.lastResponseId]
    IN IF f.conversationId # "" \/ f.responseId # ""
       THEN [t |-> [t EXCEPT !.meta = meta, !.metaCalls = Append(@, meta)], called |-> TRUE]
       ELSE [t |-> t, called |-> FALSE]
\* updateMeta (271-282) on extractMetaFromLine(data): [t, called]
updateMeta(t, f) ==
    LET newConv == f.conversationId # "" /\ f.conversationId # t.meta.grokConversationId
        newResp == f.responseId # "" /\ f.responseId # t.meta.lastResponseId
        meta == [grokConversationId |-> IF newConv THEN f.conversationId
                                        ELSE t.meta.grokConversationId,
                 lastResponseId |-> IF newResp THEN f.responseId ELSE t.meta.lastResponseId]
    IN IF newConv \/ newResp
       THEN [t |-> [t EXCEPT !.meta = meta, !.metaCalls = Append(@, meta)], called |-> TRUE]
       ELSE [t |-> t, called |-> FALSE]

\* the call opts.onFinish({status: finalStatus, ...})
callOnFinish(t) == [t EXCEPT !.finishCalls = Append(@, t.finalStatus)]

\* finally { reader.releaseLock() } (501-507)
finallyBlock(t) == [t EXCEPT !.readerReleased = TRUE]

\* catch (e) { ... } up to its call of onFinish (487-497)
catchBlock_KeepStatus(t) ==
    finalChunks(closeThinkWrappers(flushToolBuffer(
                    [t EXCEPT !.thrown = FALSE,
                              !.cause = IF @ = "none" THEN "exception" ELSE @,
                              !.caught = TRUE],
                    t.lastIsThinking)),
                <<"ProcessError: ", "e.message">>, "error")
catchBlock(t) ==
    finalChunks(closeThinkWrappers(flushToolBuffer(
                    [t EXCEPT !.thrown = FALSE, !.finalStatus = 500,
                              !.cause = IF @ = "none" THEN "exception" ELSE @,
                              !.caught = TRUE],
                    t.lastIsThinking)),
                <<"ProcessError: ", "e.message">>, "error")

\* where start() stands after a synchronous stretch inside the try block:
\* at nextPc if nothing was thrown; else the catch block has run, and either
\* it awaits its onFinish or it threw itself and start() has rejected
afterCatch(c) ==
    IF c.thrown
    THEN [t |-> finallyBlock([c EXCEPT !.thrown = FALSE, !.errored = TRUE]), pc |-> "done"]
    ELSE [t |-> callOnFinish(c), pc |-> "awaitFinish2"]
settle(t, nextPc) ==
    IF ~t.thrown THEN [t |-> t, pc |-> nextPc] ELSE afterCatch(catchBlock(t))

\* flushStop(); await opts.onFinish(...) of the loop (290-293, 482-485)
finishTry(a, cause) ==
    IF a.thrown THEN settle(a, "done")
    ELSE [t |-> callOnFinish([a EXCEPT !.cause = cause]), pc |-> "awaitFinish"]
terminate(t, cause) == finishTry(flushStop(t), cause)

(***************************************************************************)
(* Specification SpecCard: one parser is fed a text, cut into consecutive  *)
(* pieces at arbitrary places, and flushed at the end.                     *)
(***************************************************************************)
MaxSegs == 2

CardSegments ==
    { <<"a">>,
      <<" ">>,
      UsageCard,
      NameCard,
      NameCard \o TOOL_USAGE_CLOSE,
      NameCard \o <<" ">> \o TOOL_USAGE_CLOSE,
      TOOL_USAGE_OPEN \o <<">", "a">> \o TOOL_USAGE_CLOSE,
      <<"<", "XAI:", "TOOL_NAME>", "b">> \o TOOL_NAME_CLOSE
          \o TOOL_ARGS_OPEN \o CDATA_OPEN \o <<JsonRollout>> \o CDATA_CLOSE \o TOOL_ARGS_CLOSE,
      <<"<", "xai:">>,
      TOOL_USAGE_OPEN \o <<">">> }

RECURSIVE Concat(_)
Concat(ss) == IF ss = <<>> THEN <<>> ELSE Head(ss) \o Concat(Tail(ss))

CardInputs == {Concat(ss) : ss \in UNION {[1..n -> CardSegments] : n \in 1..MaxSegs}}

CardFallback == <<"r1">>

InitCard ==
    /\ RaceIdle
    /\ RateIdle
    /\ FlowIdle
    /\ StoreIdle
    /\ StreamIdle
    /\ HashIdle
    /\ GrpcIdle
    /\ cardInput \in CardInputs
    /\ cardEmit \in BOOLEAN
    /\ cardPos = 0
    /\ cardBuffer = <<>>
    /\ cardText = <<>>
    /\ cardLines = <<>>
    /\ cardPc = "feed"

\* parser.consume(piece, opts) for the next piece of the input
CardConsume ==
    /\ cardPc = "feed"
    /\ cardPos < Len(cardInput)
    /\ \E k \in 1..(Len(cardInput) - cardPos) :
        LET piece == SubSeq(cardInput, cardPos + 1, cardPos + k)
            r == consume(cardBuffer, piece, cardEmit, CardFallback)
        IN /\ cardBuffer' = r.buffer
           /\ cardText' = cardText \o r.text
           /\ cardLines' = cardLines \o r.lines
           /\ cardPos' = cardPos + k
    /\ UNCHANGED <<cardInput, cardEmit, cardPc>>
    /\ UNCHANGED notCard

\* parser.flush({...opts, emitIncompleteAsText: true}) after the last piece
CardFlush ==
    /\ cardPc = "feed"
    /\ cardPos = Len(cardInput)
    /\ LET r == flush(cardBuffer, cardEmit, CardFallback, TRUE)
       IN /\ cardBuffer' = r.buffer
          /\ cardText' = cardText \o r.text
          /\ cardLines' = cardLines \o r.lines
    /\ cardPc' = "flushed"
    /\ UNCHANGED <<cardInput, cardEmit, cardPos>>
    /\ UNCHANGED notCard

NextCard == CardConsume \/ CardFlush

SpecCard == InitCard /\ [][NextCard]_vars

\* C8: feeding a text in consecutive pieces and flushing yields the text
\* and the lines of replaceToolUsageCardsInText on the whole text.
C8_SplitEqualsWhole ==
    cardPc = "flushed" =>
        [text |-> cardText, lines |-> cardLines]
            = replaceToolUsageCardsInText(cardInput, cardEmit, CardFallback)

(***************************************************************************)
(* Conversation store (src/src/repo/conversations.ts, table of part_001).  *)
(* A row carries the columns the lookups, the expiry and the trimming read *)
(* or write: the primary key (scope, openai_conversation_id), token,       *)
(* history_hash, updated_at, expires_at.  Every operation is one action:   *)
(* its statements run without another request in between.                  *)
(***************************************************************************)
Scopes == {"A", "B"}
Ids == {1, 2}
\* the primary keys the requests of the model write to
KeySet == {<<"A", 1>>, <<"A", 2>>, <<"B", 1>>}
Tokens == {"t1", "t2"}
\* history_hash values handed to upsert (absent, or with white space around)
HashInputs == {<<>>, <<" ", "h1">>}
\* history_hash values handed to findByHistoryHash
HashQueries == {<<>>, <<"h1", " ">>, <<"h2">>}
None == -1
\* updated_at handed to upsert (None: the field is absent)
StampInputs == {None, 1}
ExpiryInputs == {2, 3}
\* values of the clock, nowMs() or the atMs argument
NowValues == {2}
ClockValues == {2}
KeepInputs == {0, 1, 2}
LimitInputs == {-1, 0, 2}

Null == [null |-> TRUE]

RowKey(r) == <<r.scope, r.openai_conversation_id>>

\* the table has a primary key
PrimaryKeyOk == \A r1 \in rows, r2 \in rows : RowKey(r1) = RowKey(r2) => r1 = r2

upsertRows_ReplaceCreated(table, key, token, hashIn, crtIn, updIn, expires, clock) ==
    {r \in table : RowKey(r) # key}
        \cup {[scope |-> key[1], openai_conversation_id |-> key[2], token |-> token,
                history_hash |-> Trim(hashIn),
                created_at |-> IF crtIn # None THEN crtIn ELSE clock,
                updated_at |-> IF updIn # None THEN updIn ELSE clock,
                expires_at |-> expires]}

\* upsertConversation: INSERT ... ON CONFLICT(scope, openai_conversation_id)
\* DO UPDATE SET token, history_hash, updated_at, expires_at (created_at is
\* written by the INSERT only)
upsertRows(table, key, token, hashIn, crtIn, updIn, expires, clock) ==
    LET createdAt == IF crtIn # None THEN crtIn ELSE clock
        updatedAt == IF updIn # None THEN updIn ELSE clock
        historyHash == Trim(hashIn)
        old == {r \in table : RowKey(r) = key}
        new == [scope |-> key[1], openai_conversation_id |-> key[2], token |-> token,
                history_hash |-> historyHash,
                created_at |-> IF old = {} THEN createdAt
                               ELSE (CHOOSE r \in old : TRUE).created_at,
                updated_at |-> updatedAt,
                expires_at |-> expires]
    IN {r \in table : RowKey(r) # key} \cup {new}

\* upsert by a caller that leaves created_at to the store
Upsert ==
    \E key \in KeySet, token \in Tokens, hashIn \in HashInputs, updIn \in StampInputs,
       expires \in ExpiryInputs, clock \in ClockValues :
        /\ rows' = upsertRows(rows, key, token, hashIn, None, updIn, expires, clock)
        /\ storeOp' = [op |-> "upsert", scope |-> key[1]]
        /\ UNCHANGED notStore

\* getConversationById: DELETE the row of the key if expired, then SELECT
\* the row of the key with expires_at > atMs
getByIdDelete_StrictExpiry(table, scope, id, atMs) ==
    {r \in table : ~(r.scope = scope /\ r.openai_conversation_id = id /\ r.expires_at < atMs)}
getByIdDelete(table, scope, id, atMs) ==
    {r \in table : ~(r.scope = scope /\ r.openai_conversation_id = id /\ r.expires_at <= atMs)}
getByIdSelect(table, scope, id, atMs) ==
    {r \in table : r.scope = scope /\ r.openai_conversation_id = id /\ r.expires_at > atMs}

GetById ==
    \E scope \in Scopes, id \in Ids, atMs \in NowValues :
        LET after == getByIdDelete(rows, scope, id, atMs)
            found == getByIdSelect(after, scope, id, atMs)
        IN /\ rows' = after
           /\ \E ret \in (IF found = {} THEN {Null} ELSE found) :
                storeOp' = [op |-> "getById", scope |-> scope, id |-> id,
                            atMs |-> atMs, ret |-> ret]
           /\ UNCHANGED notStore

\* findConversationByHistoryHash: null for an empty hash; else DELETE the
\* expired rows of the scope, then SELECT ... ORDER BY updated_at DESC LIMIT 1
findDelete_AllScopes(table, scope, atMs) ==
    {r \in table : ~(r.expires_at <= atMs)}
findDelete(table, scope, atMs) ==
    {r \in table : ~(r.scope = scope /\ r.expires_at <= atMs)}
findSelect_AnyLive(table, scope, hash, atMs) ==
    {r \in table : r.scope = scope /\ r.history_hash = hash /\ r.expires_at > atMs}
findSelect(table, scope, hash, atMs) ==
    LET m == {r \in table : r.scope = scope /\ r.history_hash = hash /\ r.expires_at > atMs}
    IN {r \in m : \A q \in m : r.updated_at >= q.updated_at}

FindByHistoryHash ==
    \E scope \in Scopes, historyHash \in HashQueries, atMs \in NowValues :
        LET hash == Trim(historyHash)
            after == IF hash = <<>> THEN rows ELSE findDelete(rows, scope, atMs)
            found == IF hash = <<>> THEN {} ELSE findSelect(after, scope, hash, atMs)
        IN /\ rows' = after
           /\ \E ret \in (IF found = {} THEN {Null} ELSE found) :
                storeOp' = [op |-> "findByHistoryHash", scope |-> scope, hash |-> historyHash,
                            atMs |-> atMs, ret |-> ret]
           /\ UNCHANGED notStore

\* deleteConversationById
DeleteById ==
    \E scope \in Scopes, id \in Ids :
        /\ rows' = {r \in rows : ~(r.scope = scope /\ r.openai_conversation_id = id)}
        /\ storeOp' = [op |-> "deleteById", scope |-> scope]
        /\ UNCHANGED notStore

\* the sequences that list every element of S once
Orderings(S) ==
    {f \in [1..Cardinality(S) -> S] : \A i, j \in 1..Cardinality(S) : i # j => f[i] # f[j]}

cleanupBatch_NoDefault(limit) == Max2(1, Min2(500, limit))
\* Math.floor(limit || 100) clamped to 1..500
cleanupBatch(limit) == Max2(1, Min2(500, IF limit = 0 THEN 100 ELSE limit))

\* cleanupExpiredConversations: SELECT the keys of the expired rows ORDER BY
\* expires_at ASC LIMIT batch, then DELETE them
CleanupExpired ==
    \E limit \in LimitInputs, atMs \in NowValues :
        LET batch == cleanupBatch(limit)
            expired == {r \in rows : r.expires_at <= atMs}
        IN \E ord \in {f \in Orderings(expired) :
                        \A i, j \in 1..Len(f) : i < j => f[i].expires_at <= f[j].expires_at} :
            LET n == Min2(batch, Len(ord))
                picked == {ord[i] : i \in 1..n}
            IN /\ rows' = {r \in rows : RowKey(r) \notin {RowKey(q) : q \in picked}}
               /\ storeOp' = [op |-> "cleanupExpired", limit |-> limit, atMs |-> atMs,
                              ret |-> n]
               /\ UNCHANGED notStore

keepCount_OffByOne(keep) == Max2(1, IF keep = 0 THEN 1 ELSE keep) + 1
\* Math.max(1, Math.floor(keep || 1))
keepCount(keep) == Max2(1, IF keep = 0 THEN 1 ELSE keep)

\* trimConversationsForToken: SELECT the ids of the (scope, token) rows
\* ORDER BY updated_at DESC; DELETE those after the first keepCount
TrimForToken ==
    \E scope \in Scopes, token \in Tokens, keep \in KeepInputs :
        LET matching == {r \in rows : r.scope = scope /\ r.token = token}
        IN \E ord \in {f \in Orderings(matching) :
                        \A i, j \in 1..Len(f) : i < j => f[i].updated_at >= f[j].updated_at} :
            LET stale == IF Len(ord) <= keepCount(keep) THEN {}
                         ELSE {ord[i].openai_conversation_id :
                                  i \in (keepCount(keep) + 1)..Len(ord)}
            IN /\ rows' = {r \in rows :
                            ~(r.scope = scope /\ r.openai_conversation_id \in stale)}
               /\ storeOp' = [op |-> "trimForToken", scope |-> scope, token |-> token,
                              keep |-> keep, ret |-> Cardinality(stale)]
               /\ UNCHANGED notStore

InitStore ==
    /\ RaceIdle
    /\ RateIdle
    /\ FlowIdle
    /\ CardIdle
    /\ StreamIdle
    /\ HashIdle
    /\ GrpcIdle
    /\ rows = {}
    /\ storeOp = [op |-> "none"]

NextStore ==
    \/ Upsert
    \/ GetById
    \/ FindByHistoryHash
    \/ DeleteById
    \/ CleanupExpired
    \/ TrimForToken

SpecStore == InitStore /\ [][NextStore]_vars

(***************************************************************************)
(* Specification Spec: one stream.  The upstream sends at most MaxFrames   *)
(* lines; a read returns any non-empty run of the bytes sent, so a line    *)
(* may arrive in several reads and a read may carry several lines.  Time   *)
(* passes while a read or a callback is awaited, up to MaxTime.            *)
(***************************************************************************)
MaxFrames == 3
MaxTime == 3
MaxDelay == 1
Infinity == 1000000
\* the timeouts of the default settings, in ms: they do not expire in the
\* time modelled
DefaultFirstTimeoutMs == 30000
DefaultChunkTimeoutMs == 120000

\* the lines an upstream may send (each is followed by "\n")
LineKinds ==
    {<<x, "}">> : x \in FrameIds} \cup {<<"null">>, <<"{">>, <<" ">>, <<" ", "N", "}", " ">>}

Lines(xs) == {<<x, "}">> : x \in xs}

\* A run: the settings (show_thinking, show_search, filtered_tags and the
\* three timeouts stream_first_response_timeout, stream_chunk_timeout,
\* stream_total_timeout) and its environment: the lines the upstream draws
\* from, whether reads cut lines, whether time passes while start() waits,
\* and whether the client may disconnect.
Run(st, tc, kinds, split, clock, disconnect) ==
    [showThinking |-> st, showSearch |-> TRUE, filteredTags |-> {},
     firstTimeoutMs |-> tc[1], chunkTimeoutMs |-> tc[2], totalTimeoutMs |-> tc[3],
     kinds |-> kinds, split |-> split, clock |-> clock, disconnect |-> disconnect]

NoTimeouts == <<DefaultFirstTimeoutMs, DefaultChunkTimeoutMs, 0>>
TimeoutConfigs ==
    { NoTimeouts, <<2, 2, 0>>, <<DefaultFirstTimeoutMs, DefaultChunkTimeoutMs, 2>>,
      <<0, DefaultChunkTimeoutMs, 0>>, <<DefaultFirstTimeoutMs, 0, 0>> }

\* runs about time: few kinds of line, every setting of the timeouts
TimingRuns ==
    { Run(TRUE, tc, Lines({"N"}) \cup {<<"{">>}, TRUE, TRUE, FALSE) : tc \in TimeoutConfigs }

\* runs about line framing: reads cut the body at any byte
FramingRuns ==
    { Run(TRUE, NoTimeouts, Lines({"N", "e'"}) \cup {<<"{">>, <<" ">>, <<" ", "N", "}", " ">>},
          TRUE, FALSE, FALSE) }

\* runs about content: every kind of frame, one line per read or more
ContentKinds ==
    { Lines({"e'", "N", "P", "C"}), Lines({"e'", "V", "W"}), Lines({"e'", "V", "I", "U"}),
      Lines({"e'", "M", "E"}) \cup {<<"null">>}, Lines({"e'", "N", "F"}),
      Lines({"P", "I", "U"}), Lines({"e'", "N", "J"}) }
ContentRuns ==
    { Run(st, NoTimeouts, ks, FALSE, FALSE, TRUE) : st \in BOOLEAN, ks \in ContentKinds }

\* runs about filtered_tags: the tag the transformer lets through, a tag
\* written with its "<", and tags that are parts of a card's opening tag
FilterTags ==
    { {<<"xai:", "tool_usage_card">>}, {<<"<", "xai:", "tool_usage_card">>},
      {<<"xai:">>}, {<<"tool_usage_card">>} }
FilterRuns ==
    { [Run(TRUE, NoTimeouts, Lines({"N", "C", "I"}), FALSE, FALSE, FALSE)
          EXCEPT !.filteredTags = tags] : tags \in FilterTags }

Configs == TimingRuns \cup FramingRuns \cup ContentRuns \cup FilterRuns

Init ==
    /\ RaceIdle
    /\ RateIdle
    /\ FlowIdle
    /\ CardIdle
    /\ StoreIdle
    /\ HashIdle
    /\ GrpcIdle
    /\ cfg \in Configs
    /\ pc = "start"
    /\ tr = InitTr
    /\ curFrame = "-"
    /\ upstream = <<>>
    /\ nSent = 0
    /\ received = <<>>
    /\ frames = <<>>
    /\ now = 0
    /\ cancelled = FALSE

Idle == UNCHANGED notStream

\* the result of settle or terminate becomes the next state
Goto(r) == tr' = r.t /\ pc' = r.pc

\* start() with grokResp.body missing (189-195)
emptyResponse_WithFinish(t) ==
    close(callOnFinish(enqueue(enqueue(t, makeChunk(DefaultModel, <<"Empty response">>, "error")),
                               makeDone)))
emptyResponse(t) ==
    close(enqueue(enqueue(t, makeChunk(DefaultModel, <<"Empty response">>, "error")), makeDone))

StartNoBody ==
    /\ pc = "start"
    /\ tr' = [emptyResponse(tr) EXCEPT !.cause = "nobody"]
    /\ pc' = "done"
    /\ UNCHANGED <<cfg, curFrame, upstream, nSent, received, frames, now, cancelled>>
    /\ Idle

\* start() up to the head of the loop (197-215)
StartBody ==
    /\ pc = "start"
    /\ pc' = "loop"
    /\ UNCHANGED <<cfg, tr, curFrame, upstream, nSent, received, frames, now, cancelled>>
    /\ Idle

elapsed == now
idle == now - tr.lastChunkTime
firstTrips == ~tr.firstReceived /\ elapsed > cfg.firstTimeoutMs
totalTrips == cfg.totalTimeoutMs > 0 /\ elapsed > cfg.totalTimeoutMs
chunkTrips == tr.firstReceived /\ idle > cfg.chunkTimeoutMs
noTrip == ~firstTrips /\ ~totalTrips /\ ~chunkTrips

\* perReadTimeout (315-318)
waitBound == IF tr.firstReceived THEN cfg.chunkTimeoutMs ELSE cfg.firstTimeoutMs
totalLeft == IF cfg.totalTimeoutMs > 0 THEN Max2(0, cfg.totalTimeoutMs - elapsed) ELSE Infinity
perReadTimeout == Min2(waitBound, totalLeft)
\* the bound that perReadTimeout comes from
perReadBound ==
    IF waitBound <= totalLeft THEN (IF tr.firstReceived THEN "chunk" ELSE "first") ELSE "total"

\* the three checks at the head of the loop (289-313)
FirstTimeout ==
    /\ pc = "loop"
    /\ firstTrips
    /\ Goto(terminate([tr EXCEPT !.tripped = "first"], "timeout"))
    /\ UNCHANGED <<cfg, curFrame, upstream, nSent, received, frames, now, cancelled>>
    /\ Idle

TotalTimeout ==
    /\ pc = "loop"
    /\ ~firstTrips /\ totalTrips
    /\ Goto(terminate([tr EXCEPT !.tripped = "total"], "timeout"))
    /\ UNCHANGED <<cfg, curFrame, upstream, nSent, received, frames, now, cancelled>>
    /\ Idle

ChunkTimeout ==
    /\ pc = "loop"
    /\ ~firstTrips /\ ~totalTrips /\ chunkTrips
    /\ Goto(terminate([tr EXCEPT !.tripped = "chunk"], "timeout"))
    /\ UNCHANGED <<cfg, curFrame, upstream, nSent, received, frames, now, cancelled>>
    /\ Idle

\* readWithTimeout gives {timeout: true}: at once when perReadTimeout <= 0,
\* else when the timer wins the race (320-328)
ReadTimeout ==
    /\ pc = "loop"
    /\ noTrip
    /\ perReadTimeout < Infinity
    /\ now + Max2(0, perReadTimeout) <= MaxTime
    /\ now' = now + Max2(0, perReadTimeout)
    /\ Goto(terminate([tr EXCEPT !.tripped = perReadBound], "timeout"))
    /\ UNCHANGED <<cfg, curFrame, upstream, nSent, received, frames, cancelled>>
    /\ Idle

\* the pc after the lines of the buffer so far have been handled
AfterLine(t) == IF IndexOf(t.buffer, <<NL>>) >= 0 THEN "lines" ELSE "loop"

RECURSIVE EncodeLines(_)
EncodeLines(ls) ==
    IF ls = <<>> THEN <<>> ELSE Encode(Head(ls)) \o <<NL>> \o EncodeLines(Tail(ls))

\* buffer += decoder.decode(value, {stream: true}) (333)
appendChunk_Replace(t, value) ==
    LET dec == DecodeStream(t.decoderPending, value, <<>>)
    IN [t EXCEPT !.buffer = dec.text, !.decoderPending = dec.pending]
appendChunk(t, value) ==
    LET dec == DecodeStream(t.decoderPending, value, <<>>)
    IN [t EXCEPT !.buffer = @ \o dec.text, !.decoderPending = dec.pending]

\* reader.read() gives a chunk before the timer runs out
ReadChunk ==
    /\ pc = "loop"
    /\ noTrip
    /\ perReadTimeout > 0
    /\ \E d \in (IF cfg.clock THEN 0..MaxDelay ELSE {0}), k \in 0..Min2(2, MaxFrames - nSent) :
        /\ d < perReadTimeout
        /\ now + d <= MaxTime
        /\ \E ls \in [1..k -> cfg.kinds] :
            LET before == upstream \o EncodeLines(SubSeq(ls, 1, k - 1))
                sent == upstream \o EncodeLines(ls)
            IN \E n \in 1..Len(sent) :
                /\ k > 0 => n > Len(before)
                /\ cfg.split \/ n = Len(sent)
                /\ LET value == SubSeq(sent, 1, n)
                       t1 == appendChunk(tr, value)
                   IN /\ tr' = t1
                      /\ pc' = AfterLine(t1)
                      /\ received' = received \o value
                      /\ upstream' = SubSeq(sent, n + 1, Len(sent))
                      /\ nSent' = nSent + k
        /\ now' = now + d
    /\ UNCHANGED <<cfg, curFrame, frames, cancelled>>
    /\ Idle

\* reader.read() gives done: the loop is left and the stream is finished
\* (331, 482-485); bytes the upstream had not delivered do not exist
ReadDone ==
    /\ pc = "loop"
    /\ noTrip
    /\ perReadTimeout > 0
    /\ upstream' = <<>>
    /\ Goto(terminate(tr, "end"))
    /\ UNCHANGED <<cfg, curFrame, nSent, received, frames, now, cancelled>>
    /\ Idle

\* reader.read() rejects: the exception is caught (487)
ReadError ==
    /\ pc = "loop"
    /\ noTrip
    /\ perReadTimeout > 0
    /\ Goto(settle([tr EXCEPT !.thrown = TRUE], "done"))
    /\ UNCHANGED <<cfg, curFrame, upstream, nSent, received, frames, now, cancelled>>
    /\ Idle

\* the handling of a frame after updateMeta, and what follows it
afterFrame(r) ==
    IF r.finish \/ r.t.thrown THEN finishTry(r.t, r.cause)
    ELSE [t |-> r.t, pc |-> AfterLine(r.t)]
Continue(t, f) == afterFrame(frameRest(t, f))

\* buffer = buffer.slice(idx + 1) (338)
cutLine_Stamped(t, idx) ==
    [t EXCEPT !.buffer = SliceFrom(t.buffer, idx + 1), !.lastChunkTime = now]
cutLine_DropRest(t, idx) == [t EXCEPT !.buffer = <<>>]
cutLine(t, idx) == [t EXCEPT !.buffer = SliceFrom(t.buffer, idx + 1)]

\* one round of the line loop (336-347): cut the next line off the buffer,
\* skip it if it is empty or fails JSON.parse, else update the meta and,
\* unless onMeta is now awaited, handle the frame
ProcessLine ==
    /\ pc = "lines"
    /\ LET idx == IndexOf(tr.buffer, <<NL>>)
           line == Trim(Slice(tr.buffer, 0, idx))
           t1 == cutLine(tr, idx)
           parsed == JsonParse(line)
       IN IF line = <<>> THEN
             /\ tr' = t1 /\ pc' = AfterLine(t1)
             /\ UNCHANGED <<curFrame, frames>>
          ELSE IF ~parsed.ok THEN
             /\ tr' = t1 /\ pc' = AfterLine(t1)
             /\ frames' = Append(frames, line)
             /\ UNCHANGED curFrame
          ELSE IF parsed.data.isNull THEN
             \* extractMetaFromLine(null) raises TypeError
             /\ Goto(settle([t1 EXCEPT !.thrown = TRUE], "done"))
             /\ frames' = Append(frames, line)
             /\ UNCHANGED curFrame
          ELSE LET m == updateMeta(t1, parsed.data) IN
             /\ frames' = Append(frames, line)
             /\ IF m.called
                THEN tr' = m.t /\ pc' = "awaitMeta" /\ curFrame' = line[1]
                ELSE Goto(Continue(m.t, parsed.data)) /\ UNCHANGED curFrame
    /\ UNCHANGED <<cfg, upstream, nSent, received, now, cancelled>>
    /\ Idle

\* onMeta returns: the frame is handled
MetaReturns ==
    /\ pc = "awaitMeta"
    /\ Goto(Continue(tr, FrameOf(curFrame)))
    /\ curFrame' = "-"
    /\ UNCHANGED <<cfg, upstream, nSent, received, frames, now, cancelled>>
    /\ Idle

\* onMeta raises (or rejects)
MetaThrows ==
    /\ pc = "awaitMeta"
    /\ Goto(settle([tr EXCEPT !.thrown = TRUE], "done"))
    /\ curFrame' = "-"
    /\ UNCHANGED <<cfg, upstream, nSent, received, frames, now, cancelled>>
    /\ Idle

\* time passes while onMeta is awaited
Tick ==
    /\ pc = "awaitMeta"
    /\ cfg.clock
    /\ now < MaxTime
    /\ now' = now + 1
    /\ UNCHANGED <<cfg, pc, tr, curFrame, upstream, nSent, received, frames, cancelled>>
    /\ Idle

\* onFinish, called inside the try block, returns: controller.close(); return
FinishReturns ==
    /\ pc = "awaitFinish"
    /\ LET a == close(tr)
       IN IF a.thrown THEN Goto(settle(a, "done"))
          ELSE tr' = finallyBlock(a) /\ pc' = "done"
    /\ UNCHANGED <<cfg, curFrame, upstream, nSent, received, frames, now, cancelled>>
    /\ Idle

\* onFinish, called inside the try block, raises: the catch block runs
FinishThrows ==
    /\ pc = "awaitFinish"
    /\ Goto(settle([tr EXCEPT !.thrown = TRUE], "done"))
    /\ UNCHANGED <<cfg, curFrame, upstream, nSent, received, frames, now, cancelled>>
    /\ Idle

\* onFinish, called by the catch block, returns: controller.close() (500)
CatchFinishReturns ==
    /\ pc = "awaitFinish2"
    /\ LET a == close(tr)
       IN tr' = finallyBlock([a EXCEPT !.thrown = FALSE, !.errored = a.thrown])
    /\ pc' = "done"
    /\ UNCHANGED <<cfg, curFrame, upstream, nSent, received, frames, now, cancelled>>
    /\ Idle

\* onFinish, called by the catch block, raises: start() rejects
CatchFinishThrows ==
    /\ pc = "awaitFinish2"
    /\ tr' = finallyBlock([tr EXCEPT !.errored = TRUE])
    /\ pc' = "done"
    /\ UNCHANGED <<cfg, curFrame, upstream, nSent, received, frames, now, cancelled>>
    /\ Idle

\* the client disconnects: the output stream is cancelled
Cancel ==
    /\ pc \in {"loop", "awaitMeta", "awaitFinish", "awaitFinish2"}
    /\ cfg.disconnect
    /\ ~cancelled
    /\ cancelled' = TRUE
    /\ UNCHANGED <<cfg, pc, tr, curFrame, upstream, nSent, received, frames, now>>
    /\ Idle

Next ==
    \/ StartNoBody
    \/ StartBody
    \/ FirstTimeout
    \/ TotalTimeout
    \/ ChunkTimeout
    \/ ReadTimeout
    \/ ReadChunk
    \/ ReadDone
    \/ ReadError
    \/ ProcessLine
    \/ MetaReturns
    \/ MetaThrows
    \/ Tick
    \/ FinishReturns
    \/ FinishThrows
    \/ CatchFinishReturns
    \/ CatchFinishThrows
    \/ Cancel

Spec == Init /\ [][Next]_vars

(***************************************************************************)
(* Properties of the stream transformer (specification Spec).              *)
(***************************************************************************)
IsDone(frame) == frame = makeDone
DoneAt(out) == {i \in 1..Len(out) : IsDone(out[i])}

RECURSIVE CountSym(_, _)
CountSym(content, sym) ==
    IF content = <<>> THEN 0
    ELSE (IF Head(content) = sym THEN 1 ELSE 0) + CountSym(Tail(content), sym)
RECURSIVE CountOut(_, _)
CountOut(out, sym) ==
    IF out = <<>> THEN 0 ELSE CountSym(Head(out).content, sym) + CountOut(Tail(out), sym)
Opens(out) == CountOut(out, "<think>")
Closes(out) == CountOut(out, "</think>")
ErrorChunks(out) == {i \in 1..Len(out) : out[i].finish_reason = "error"}

\* C1: when the stream has ended and the client is still connected, the
\* output holds exactly one [DONE] frame and it is the last frame.
C1_ExactlyOneDoneLast ==
    (pc = "done" /\ ~cancelled) =>
        /\ Cardinality(DoneAt(tr.out)) = 1
        /\ IsDone(tr.out[Len(tr.out)])

\* C2: onFinish is invoked at most once per stream.
C2_OnFinishAtMostOnce ==
    pc # "idle" => Len(tr.finishCalls) <= 1

\* C3: every [DONE] frame is preceded by as many think openers as think
\* closers (text wrapper and video-progress wrapper together), and so is the
\* whole output of a stream that has ended with the client connected.
C3_ThinkBalanced ==
    /\ \A i \in DoneAt(tr.out) :
          Opens(SubSeq(tr.out, 1, i)) = Closes(SubSeq(tr.out, 1, i))
    /\ (pc = "done" /\ ~cancelled) => Opens(tr.out) = Closes(tr.out)

\* a stream has ended whose video-progress think was open at the end of the
\* body and whose text think was opened and closed before
C3_Witness ==
    /\ pc = "done" /\ ~cancelled
    /\ tr.cause = "end"
    /\ Opens(tr.out) = 2
    /\ \E i \in 1..Len(tr.out) : tr.out[i].content = <<"</think>", NL>>

\* C4: after a disconnect no enqueue raises, the reader is released and
\* onFinish has been called exactly once when start() has returned.
C4_DisconnectIsQuiet ==
    (pc = "done" /\ cancelled) =>
        /\ ~tr.enqueueRaised
        /\ tr.readerReleased
        /\ Len(tr.finishCalls) = 1

\* C5: a bound configured as 0 never ends the stream: neither its check at
\* the head of the loop nor a read timeout that comes from it.
C5_ZeroDisables ==
    pc # "idle" =>
        /\ tr.tripped = "first" => cfg.firstTimeoutMs # 0
        /\ tr.tripped = "chunk" => cfg.chunkTimeoutMs # 0
        /\ tr.tripped = "total" => cfg.totalTimeoutMs # 0

\* C6: a stream ended by a timeout ends with the chunk "stop" and [DONE],
\* without an error chunk and without an errored stream, and onFinish has
\* received the status 200 and nothing else.
C6_TimeoutIsGraceful ==
    (pc = "done" /\ tr.tripped # "none" /\ ~cancelled) =>
        /\ ErrorChunks(tr.out) = {}
        /\ ~tr.errored
        /\ Len(tr.out) >= 2
        /\ tr.out[Len(tr.out) - 1].finish_reason = "stop"
        /\ tr.out[Len(tr.out) - 1].content = <<>>
        /\ IsDone(tr.out[Len(tr.out)])
        /\ \A i \in 1..Len(tr.finishCalls) : tr.finishCalls[i] = 200

\* The transformer run on a body delivered by one read, with callbacks that
\* return: the locals after the line loop has handled every line.
RECURSIVE wholeLoop(_)
wholeFrame(r) == IF r.finish \/ r.t.thrown THEN r.t ELSE wholeLoop(r.t)
wholeParsed(t, parsed) ==
    IF ~parsed.ok THEN wholeLoop(t)
    ELSE IF parsed.data.isNull THEN [t EXCEPT !.thrown = TRUE]
    ELSE wholeFrame(frameRest(updateMeta(t, parsed.data).t, parsed.data))
wholeLine(t, line) == IF line = <<>> THEN wholeLoop(t) ELSE wholeParsed(t, JsonParse(line))
wholeCut(t, idx) ==
    wholeLine([t EXCEPT !.buffer = SliceFrom(t.buffer, idx + 1)], Trim(Slice(t.buffer, 0, idx)))
wholeLoop(t) == IF IndexOf(t.buffer, <<NL>>) < 0 THEN t ELSE wholeCut(t, IndexOf(t.buffer, <<NL>>))
Whole(bytes) == wholeLoop(appendChunk(InitTr, bytes))

\* C7: with the client connected and no timeout, what the transformer has
\* emitted once it has handled the bytes received so far, in however many
\* reads they came, is what it emits for these bytes delivered by one read;
\* the same holds after the end of the body.
C7_SplitEqualsWhole ==
    /\ (pc = "loop" /\ ~cancelled) =>
          /\ tr.out = Whole(received).out
          /\ tr.buffer = Whole(received).buffer
    /\ (pc = "awaitFinish" /\ ~cancelled /\ tr.cause = "end") =>
          tr.out = flushStop(Whole(received)).out
    /\ (pc = "awaitFinish" /\ ~cancelled /\ tr.cause \in {"errorFrame", "image"}) =>
          tr.out = Whole(received).out

\* a read has ended inside a line, after two chunks were emitted
C7_Witness ==
    /\ pc = "loop" /\ ~cancelled
    /\ cfg.split
    /\ tr.buffer # <<>>
    /\ Len(tr.out) >= 2

\* the rows of a (scope, token) pair
PairRows(scope, token) == {r \in rows : r.scope = scope /\ r.token = token}

\* C9: getById and findByHistoryHash never return a row with
\* expires_at <= now, and after getById(scope, id, now) no row of that key
\* with expires_at <= now is left in the table.
C9_ReadersNeverReturnExpired ==
    /\ (storeOp.op \in {"getById", "findByHistoryHash"} /\ storeOp.ret # Null)
            => storeOp.ret.expires_at > storeOp.atMs
    /\ storeOp.op = "getById"
            => \A r \in rows :
                    ~(/\ r.scope = storeOp.scope
                      /\ r.openai_conversation_id = storeOp.id
                      /\ r.expires_at <= storeOp.atMs)

\* a getById that purged nothing of other keys and returned a live row
\* while expired rows of other keys are still stored, and one that found
\* only an expired row
C9_Witness ==
    /\ storeOp.op = "getById"
    /\ storeOp.ret # Null
    /\ \E r \in rows : r.expires_at <= storeOp.atMs

\* C10 as stated: after trimForToken(scope, token, keep = k) at most k rows
\* of the pair remain, for every k >= 0.
C10_TrimLeavesAtMostKeep ==
    storeOp.op = "trimForToken"
        => Cardinality(PairRows(storeOp.scope, storeOp.token)) <= storeOp.keep

\* C10 amended: at most max(1, k) rows of the pair remain (keep = 0 is
\* treated as keep = 1).
C10_TrimLeavesAtMostKeepCount ==
    storeOp.op = "trimForToken"
        => Cardinality(PairRows(storeOp.scope, storeOp.token)) <= Max2(1, storeOp.keep)

\* a trim that deleted a row and left keep = 1 rows
C10_Witness ==
    /\ storeOp.op = "trimForToken"
    /\ storeOp.keep = 1
    /\ storeOp.ret >= 1
    /\ Cardinality(PairRows(storeOp.scope, storeOp.token)) = 1

\* the rows of a scope, and what the two readers return for a scope
ScopeRows(table, scope) == {r \in table : r.scope = scope}
readById(table, scope, id, atMs) ==
    getByIdSelect(getByIdDelete(table, scope, id, atMs), scope, id, atMs)
readByHash(table, scope, hash, atMs) ==
    IF Trim(hash) = <<>> THEN {}
    ELSE findSelect(findDelete(table, scope, atMs), scope, Trim(hash), atMs)
ScopedOps == {"upsert", "getById", "findByHistoryHash", "deleteById", "trimForToken"}

\* C11: an operation called with a scope leaves the rows of every other
\* scope as they were; what getById and findByHistoryHash return for a scope
\* is determined by the rows of that scope alone, so it is left as it was
\* too; and a reader returns a row of the scope it was called with.
C11_ScopesIsolated ==
    /\ [](\A s \in Scopes :
            /\ \A id \in Ids, atMs \in NowValues :
                  readById(rows, s, id, atMs) = readById(ScopeRows(rows, s), s, id, atMs)
            /\ \A hash \in HashQueries, atMs \in NowValues :
                  readByHash(rows, s, hash, atMs) = readByHash(ScopeRows(rows, s), s, hash, atMs))
    /\ [][
          /\ (storeOp'.op \in ScopedOps =>
                (\A s \in Scopes \ {storeOp'.scope} : ScopeRows(rows', s) = ScopeRows(rows, s)))
          /\ ((storeOp'.op \in {"getById", "findByHistoryHash"} /\ storeOp'.ret # Null) =>
                storeOp'.ret.scope = storeOp'.scope)
       ]_vars

\* findByHistoryHash has purged scope A while scope B holds an expired row
C11_Witness ==
    /\ storeOp.op = "findByHistoryHash"
    /\ storeOp.scope = "A"
    /\ Trim(storeOp.hash) # <<>>
    /\ \E r \in rows : r.scope = "B" /\ r.expires_at <= storeOp.atMs
    /\ \E r \in rows : r.scope = "A"

\* ---- the time stamps of the rows under upserts alone ----
\* values of nowMs() over a run; the clock does not go back
StampClocks == {1, 2}
lastClock == IF storeOp.op = "upsertStamped" THEN storeOp.clock ELSE 0

\* upsert with or without created_at and updated_at
UpsertStamped ==
    \E key \in KeySet, crtIn \in StampInputs, updIn \in StampInputs,
       expires \in ExpiryInputs, clock \in StampClocks :
        /\ clock >= lastClock
        /\ rows' = upsertRows(rows, key, "t1", <<>>, crtIn, updIn, expires, clock)
        /\ storeOp' = [op |-> "upsertStamped", scope |-> key[1], crtIn |-> crtIn,
                       updIn |-> updIn, clock |-> clock]
        /\ UNCHANGED notStore

NextStamps == UpsertStamped

SpecStamps == InitStore /\ [][NextStamps]_vars

\* C12: after any sequence of upserts every stored row has
\* expires_at > updated_at >= created_at.
C12_StampsOrdered ==
    \A r \in rows : r.expires_at > r.updated_at /\ r.updated_at >= r.created_at

(***************************************************************************)
(* History hasher (conversations.ts 227-280).  A content is a string, an   *)
(* array of items, or null; an item is a text item or an image item.       *)
(***************************************************************************)
StringContent(text) == [type |-> "string", text |-> text]
ArrayContent(items) == [type |-> "array", items |-> items]
NullContent == [type |-> "null"]
TextItem(text) == [type |-> "text", text |-> text]
ImageItem == [type |-> "image_url"]

\* extractText: the string itself; "" for what is no array; else the texts
\* of the text items that are not white space only, joined by ""
RECURSIVE extractItems(_)
extractItems(items) ==
    IF items = <<>> THEN <<>>
    ELSE LET item == Head(items)
         IN IF item.type # "text" THEN extractItems(Tail(items))
            ELSE IF Trim(item.text) # <<>> THEN item.text \o extractItems(Tail(items))
            ELSE extractItems(Tail(items))
extractText(content) ==
    IF content.type = "string" THEN content.text
    ELSE IF content.type # "array" THEN <<>>
    ELSE extractItems(content.items)

\* the digest of a string: a non-empty string that determines its input
sha256Hex(s) == <<"sha256:">> \o s

messageText_StringOnly(msg) ==
    IF msg.content.type = "string" THEN Trim(msg.content.text) ELSE <<>>
\* extractText(msg?.content).trim()
messageText(msg) == Trim(extractText(msg.content))

\* the loop over the messages: systemParts, userParts, hasAssistant
RECURSIVE systemParts(_)
systemParts(msgs) ==
    IF msgs = <<>> THEN <<>>
    ELSE LET msg == Head(msgs)
         IN (IF msg.role = "system" /\ messageText(msg) # <<>>
             THEN << <<"system:">> \o messageText(msg) >> ELSE <<>>)
            \o systemParts(Tail(msgs))
RECURSIVE userParts(_)
userParts(msgs) ==
    IF msgs = <<>> THEN <<>>
    ELSE LET msg == Head(msgs)
         IN (IF msg.role = "user" /\ messageText(msg) # <<>>
             THEN << <<"user:">> \o messageText(msg) >> ELSE <<>>)
            \o userParts(Tail(msgs))
hasAssistant(msgs) == \E i \in 1..Len(msgs) : msgs[i].role = "assistant"

\* parts.join("\n")
RECURSIVE joinParts(_)
joinParts(parts) ==
    IF parts = <<>> THEN <<>>
    ELSE IF Len(parts) = 1 THEN parts[1]
    ELSE parts[1] \o <<NL>> \o joinParts(Tail(parts))

usedUsers(users, excludeLastUser, assistant) ==
    IF excludeLastUser /\ assistant /\ Len(users) > 0
    THEN SubSeq(users, 1, Len(users) - 1)
    ELSE users
hashOfParts(parts) == IF parts = <<>> THEN <<>> ELSE sha256Hex(joinParts(parts))
computeHistoryHash(msgs, excludeLastUser) ==
    IF msgs = <<>> THEN <<>>
    ELSE hashOfParts(systemParts(msgs)
                     \o usedUsers(userParts(msgs), excludeLastUser, hasAssistant(msgs)))

\* ---- specification of the hasher over a conversation that grows ----
MaxMessages == 3
MessageInputs ==
    { [role |-> "user", content |-> StringContent(<<"a">>)],
      [role |-> "user", content |-> ArrayContent(<<TextItem(<<"a">>), ImageItem>>)],
      [role |-> "user", content |-> ArrayContent(<<ImageItem>>)],
      [role |-> "user", content |-> StringContent(<<"b", " ">>)],
      [role |-> "assistant", content |-> StringContent(<<"b">>)],
      [role |-> "system", content |-> ArrayContent(<<TextItem(<<" ">>), TextItem(<<"a">>)>>)],
      [role |-> "system", content |-> NullContent] }

InitHash ==
    /\ RaceIdle
    /\ RateIdle
    /\ FlowIdle
    /\ CardIdle
    /\ StoreIdle
    /\ StreamIdle
    /\ GrpcIdle
    /\ messages = <<>>
    /\ hashOp = [op |-> "none"]

\* the client sends the conversation again with one more message
PushMessage ==
    \E msg \in MessageInputs :
        /\ Len(messages) < MaxMessages
        /\ messages' = Append(messages, msg)
        /\ hashOp' = [op |-> "push"]
        /\ UNCHANGED notHash

\* the client sends the conversation again with one message written anew
RewriteMessage ==
    \E i \in 1..Len(messages), msg \in MessageInputs :
        /\ msg # messages[i]
        /\ messages' = [messages EXCEPT ![i] = msg]
        /\ hashOp' = [op |-> "rewrite", before |-> messages]
        /\ UNCHANGED notHash

ComputeHash ==
    \E excludeLastUser \in BOOLEAN :
        /\ hashOp' = [op |-> "computeHistoryHash", excludeLastUser |-> excludeLastUser,
                      ret |-> computeHistoryHash(messages, excludeLastUser)]
        /\ UNCHANGED messages
        /\ UNCHANGED notHash

NextHash ==
    \/ PushMessage
    \/ RewriteMessage
    \/ ComputeHash

SpecHash == InitHash /\ [][NextHash]_vars

\* C13: for a message list with an assistant message whose last message is a
\* user message, the hash with excludeLastUser = true is the hash of the list
\* without its final message with excludeLastUser = false.
C13_ExcludeLastIsPrefixHash ==
    (/\ hashOp.op = "computeHistoryHash"
     /\ hashOp.excludeLastUser
     /\ hasAssistant(messages)
     /\ messages[Len(messages)].role = "user")
    => hashOp.ret = computeHistoryHash(SubSeq(messages, 1, Len(messages) - 1), FALSE)

\* the ordered sequence of (role, extracted text) pairs of a message array
textPairs(msgs) == [i \in 1..Len(msgs) |-> <<msgs[i].role, extractText(msgs[i].content)>>]

ThinkingSymbols ==
    UNION { {FrameOf(x).token[i] : i \in 1..Len(FrameOf(x).token)} :
            x \in {y \in FrameIds : FrameOf(y).isThinking} }
RECURSIVE OutputText(_)
OutputText(out) == IF out = <<>> THEN <<>> ELSE Head(out).content \o OutputText(Tail(out))

\* C15: with showThinking = false nothing of a token of a thinking frame is
\* emitted.
C15_ThinkingSuppressed ==
    (pc # "idle" /\ ~cfg.showThinking) =>
        \A i \in 1..Len(OutputText(tr.out)) : OutputText(tr.out)[i] \notin ThinkingSymbols

\* the symbols of the content that is no thinking: the tokens of the frames
\* with isThinking = false, the image output and the video output
PlainSymbols ==
    UNION { {FrameOf(x).token[i] : i \in 1..Len(FrameOf(x).token)} :
            x \in {y \in FrameIds : ~FrameOf(y).isThinking} }
        \cup {"![Generated Image]", "<video>"}
\* symbol i of the text stands inside a think block that is open
InsideThink(text, i) ==
    CountSym(SubSeq(text, 1, i - 1), "<think>") > CountSym(SubSeq(text, 1, i - 1), "</think>")

\* C16: with showThinking = true every symbol of a thinking token is emitted
\* inside an open think block and every symbol of plain content outside any.
C16_ThinkOrdering ==
    (pc # "idle" /\ cfg.showThinking) =>
        \A i \in 1..Len(OutputText(tr.out)) :
            /\ (OutputText(tr.out)[i] \in ThinkingSymbols => InsideThink(OutputText(tr.out), i))
            /\ (OutputText(tr.out)[i] \in PlainSymbols => ~InsideThink(OutputText(tr.out), i))

\* the values of a meta field carried by the frames parsed so far
Carried(field) ==
    {JsonParse(frames[i]).data[field] :
        i \in {j \in 1..Len(frames) : JsonParse(frames[j]).ok}} \ {""}

\* C17: a meta field is empty or a value carried by a parsed frame, is never
\* reset to empty, and changes only in the step that parses a frame, to the
\* non-empty value of that frame; onMeta is invoked once in every step that
\* changes a field and in no other step.
C17_MetaMonotone ==
    /\ [](pc # "idle" =>
            /\ tr.meta.grokConversationId \in {""} \cup Carried("conversationId")
            /\ tr.meta.lastResponseId \in {""} \cup Carried("responseId"))
    /\ [][pc # "idle" =>
            /\ (tr.meta.grokConversationId # "" => tr'.meta.grokConversationId # "")
            /\ (tr.meta.lastResponseId # "" => tr'.meta.lastResponseId # "")
            /\ (tr'.meta # tr.meta =>
                  /\ Len(frames') = Len(frames) + 1
                  /\ JsonParse(frames'[Len(frames')]).ok
                  /\ (\/ tr'.meta.grokConversationId = tr.meta.grokConversationId
                      \/ /\ tr'.meta.grokConversationId # ""
                         /\ tr'.meta.grokConversationId
                               = JsonParse(frames'[Len(frames')]).data.conversationId)
                  /\ (\/ tr'.meta.lastResponseId = tr.meta.lastResponseId
                      \/ /\ tr'.meta.lastResponseId # ""
                         /\ tr'.meta.lastResponseId
                               = JsonParse(frames'[Len(frames')]).data.responseId)
                  /\ tr'.metaCalls = Append(tr.metaCalls, tr'.meta))
            /\ (tr'.meta = tr.meta => tr'.metaCalls = tr.metaCalls)
       ]_vars

\* onMeta was called for two frames that changed lastResponseId and not for a
\* third frame that carried the value the field already had
C17_Witness ==
    /\ pc # "idle"
    /\ Len(tr.metaCalls) = 2
    /\ tr.metaCalls[1].lastResponseId # tr.metaCalls[2].lastResponseId
    /\ Len(frames) = 3
    /\ \A i \in 1..3 : JsonParse(frames[i]).ok /\ JsonParse(frames[i]).data.responseId # ""

\* the frame parsed last carries error.message (no frame is parsed after it)
ErrorSeen == frames # <<>> /\ JsonParse(frames[Len(frames)]).data.errorMessage # ""
ErrorText == <<"Error: ", JsonParse(frames[Len(frames)]).data.errorMessage>>

\* C18: once a frame with error.message is handled the status is 500, the
\* tool buffer is flushed, the think wrappers are closed, the output ends
\* with the only chunk "Error: <msg>" (finish_reason "stop") and [DONE],
\* onFinish has been invoked (once, with 500) and the stream is closed when
\* start() has returned; afterwards no frame is parsed and neither the
\* output nor the meta changes.
C18_ErrorFrameEndsStream ==
    /\ [](ErrorSeen =>
            /\ tr.finalStatus = 500
            /\ tr.toolBuffer = <<>>
            /\ Opens(tr.out) = Closes(tr.out)
            /\ Len(tr.out) >= 2
            /\ tr.out[Len(tr.out) - 1].content = ErrorText
            /\ tr.out[Len(tr.out) - 1].finish_reason = "stop"
            /\ IsDone(tr.out[Len(tr.out)])
            /\ Cardinality({i \in 1..Len(tr.out) : tr.out[i].content = ErrorText}) = 1
            /\ Cardinality(DoneAt(tr.out)) = 1
            /\ tr.finishCalls = <<500>>
            /\ (pc = "done" => tr.closed))
    /\ [][ErrorSeen =>
            /\ frames' = frames
            /\ tr'.out = tr.out
            /\ tr'.meta = tr.meta
       ]_vars

(***************************************************************************)
(* Non-stream collector parseOpenAiFromGrokNdjson (part_000 512-641): the  *)
(* loop over the lines of the whole body and the content it returns.       *)
(***************************************************************************)
\* text.split("\n").map((l) => l.trim()).filter(Boolean)
RECURSIVE splitLines(_)
splitLines(text) ==
    IF text = <<>> THEN <<>>
    ELSE LET idx == IndexOf(text, <<NL>>)
             line == Trim(IF idx < 0 THEN text ELSE Slice(text, 0, idx))
             rest == IF idx < 0 THEN <<>> ELSE splitLines(SliceFrom(text, idx + 1))
         IN IF line = <<>> THEN rest ELSE <<line>> \o rest

\* the locals of the collector before the loop
InitCollect ==
    [latestMessage |-> <<>>, latestToolLines |-> <<>>, tokenParts |-> <<>>,
     merged |-> FALSE, mergedContent |-> <<>>, lastToolRolloutId |-> <<>>, threw |-> FALSE]

\* lines.join("\n")
RECURSIVE joinNL(_)
joinNL(lines) ==
    IF lines = <<>> THEN <<>>
    ELSE IF Len(lines) = 1 THEN lines[1]
    ELSE lines[1] \o <<NL>> \o joinNL(Tail(lines))

\* modelResponse of a frame: message, then generatedImageUrls (585-612)
collectMessage(c, f, parsed) ==
    IF f.hasMessage /\ (f.message # <<>> \/ parsed.lines # <<>>)
    THEN [c EXCEPT !.latestMessage = parsed.text, !.latestToolLines = parsed.lines]
    ELSE c
collectUrls(c, f) ==
    IF f.modelResponse = "urls"
    THEN [c EXCEPT !.merged = TRUE,
                   !.mergedContent = (IF c.latestMessage # <<>> THEN c.latestMessage \o <<NL>>
                                      ELSE <<>>) \o <<"![Generated Image]">>]
    ELSE c
collectModelResponse(c, f) ==
    collectUrls(collectMessage(c, f, replaceToolUsageCardsInText(
                    f.message, shouldEmitToolLines, c.lastToolRolloutId)), f)

\* one frame with result.response: token, rollout id, video, modelResponse
collectToken(c, f) ==
    [c EXCEPT !.tokenParts =
                  IF f.token # <<>> /\ ~(\E tag \in cfg.filteredTags : IndexOf(f.token, tag) >= 0)
                  THEN @ \o f.token ELSE @,
              !.lastToolRolloutId = IF Trim(f.rolloutId) # <<>> THEN Trim(f.rolloutId) ELSE @]
collectResponse(c, f) ==
    IF f.video /\ f.videoUrl THEN [c EXCEPT !.merged = TRUE, !.mergedContent = <<"<video>">>]
    ELSE IF f.modelResponse = "none" THEN c
    ELSE collectModelResponse(c, f)

\* the body of the loop for one line (541-613)
collectLine(c, parsed) ==
    IF ~parsed.ok THEN c
    ELSE IF parsed.data.isNull \/ parsed.data.errorMessage # "" THEN [c EXCEPT !.threw = TRUE]
    ELSE IF ~parsed.data.hasResponse THEN c
    ELSE collectResponse(collectToken(c, parsed.data), parsed.data)
RECURSIVE collectLoop(_, _)
collectLoop(c, lines) ==
    IF lines = <<>> \/ c.threw THEN c
    ELSE collectLoop(collectLine(c, JsonParse(Head(lines))), Tail(lines))

\* the content of the message returned (615-620)
withToolBlock(c, content) ==
    IF c.latestToolLines = <<>> THEN content
    ELSE <<"<think>", NL>> \o joinNL(c.latestToolLines) \o <<NL, "</think>">>
            \o (IF content # <<>> THEN <<NL>> \o content ELSE <<>>)
collectContent(c) ==
    withToolBlock(c, IF c.merged THEN c.mergedContent
                     ELSE IF c.latestMessage # <<>> THEN c.latestMessage
                     ELSE c.tokenParts)

\* grokResp.text(): the body decoded at once
bodyText(bytes) ==
    DecodeStream(<<>>, bytes, <<>>).text
        \o (IF DecodeStream(<<>>, bytes, <<>>).pending # <<>> THEN <<"U+FFFD">> ELSE <<>>)
\* parseOpenAiFromGrokNdjson: [threw, content]
parseOpenAiFromGrokNdjson(bytes) ==
    LET c == collectLoop(InitCollect, splitLines(bodyText(bytes)))
    IN [threw |-> c.threw, content |-> IF c.threw THEN <<>> ELSE collectContent(c)]

\* the concatenation of the content deltas of the stream
RECURSIVE Deltas(_)
Deltas(out) ==
    IF out = <<>> THEN <<>>
    ELSE (IF IsDone(Head(out)) THEN <<>> ELSE Head(out).content) \o Deltas(Tail(out))

\* C19: when the stream has handled the whole body, with no timeout, the
\* client connected and no callback that raised, the collector run on the
\* same body and settings returns the concatenation of the content deltas
\* of the stream.
C19_CollectorEqualsStream ==
    (/\ pc = "done"
     /\ ~cancelled
     /\ tr.tripped = "none"
     /\ ~tr.caught
     /\ tr.cause \in {"end", "errorFrame", "image"})
    => /\ ~parseOpenAiFromGrokNdjson(received).threw
       /\ parseOpenAiFromGrokNdjson(received).content = Deltas(tr.out)

(***************************************************************************)
(* gRPC-web codec (part_000 643-798).  A byte is a number 0..255; a text   *)
(* is the sequence of the char codes of its characters.                    *)
(***************************************************************************)
HeadLimit == 1024
\* BASE64_BODY_RE = /^[A-Za-z0-9+/=\r\n]+$/ on one char code
IsBase64Digit(b) ==
    \/ b \in 65..90
    \/ b \in 97..122
    \/ b \in 48..57
    \/ b \in {43, 47}
InBase64BodyRe(b) == IsBase64Digit(b) \/ b \in {61, 13, 10}

isProbablyBase64Body(body) ==
    /\ Len(body) # 0
    /\ \A i \in 1..Min2(Len(body), HeadLimit) : InBase64BodyRe(body[i])

\* the value of a base64 digit
Base64Value(b) ==
    IF b \in 65..90 THEN b - 65
    ELSE IF b \in 97..122 THEN b - 71
    ELSE IF b \in 48..57 THEN b + 4
    ELSE IF b = 43 THEN 62 ELSE 63

\* atob: the padding is dropped, a length of 4k+1 or a character that is
\* no digit fails, and every 4 digits give 3 bytes (2 give 1, 3 give 2)
stripPadding(text) ==
    IF Len(text) % 4 = 0 /\ Len(text) >= 2 /\ text[Len(text)] = 61
    THEN IF text[Len(text) - 1] = 61 THEN SubSeq(text, 1, Len(text) - 2)
         ELSE SubSeq(text, 1, Len(text) - 1)
    ELSE text
RECURSIVE decodeDigits(_)
decodeDigits(ds) ==
    IF Len(ds) < 2 THEN <<>>
    ELSE LET v1 == Base64Value(ds[1])
             v2 == Base64Value(ds[2])
             v3 == IF Len(ds) >= 3 THEN Base64Value(ds[3]) ELSE 0
             v4 == IF Len(ds) >= 4 THEN Base64Value(ds[4]) ELSE 0
             b1 == v1 * 4 + (v2 \div 16)
             b2 == (v2 % 16) * 16 + (v3 \div 4)
             b3 == (v3 % 4) * 64 + v4
         IN IF Len(ds) = 2 THEN <<b1>>
            ELSE IF Len(ds) = 3 THEN <<b1, b2>>
            ELSE <<b1, b2, b3>> \o decodeDigits(SubSeq(ds, 5, Len(ds)))
\* decodeBase64Body: [ok, bytes]
decodeBase64Body(text) ==
    LET ds == stripPadding(text)
    IN IF Len(ds) % 4 = 1 \/ \E i \in 1..Len(ds) : ~IsBase64Digit(ds[i])
       THEN [ok |-> FALSE, bytes |-> <<>>]
       ELSE [ok |-> TRUE, bytes |-> decodeDigits(ds)]

\* new TextDecoder().decode(body).replace(/\s+/g, ""): a byte above 127 is
\* no character of its own (it decodes to U+FFFD or to part of a character
\* that is no base64 digit), so it stays as it is here
RECURSIVE compactText(_)
compactText(body) ==
    IF body = <<>> THEN <<>>
    ELSE (IF Head(body) \in {9, 10, 11, 12, 13, 32} THEN <<>> ELSE <<Head(body)>>)
            \o compactText(Tail(body))

decodedOrBody(body, compact) ==
    IF compact = <<>> THEN body
    ELSE IF decodeBase64Body(compact).ok THEN decodeBase64Body(compact).bytes
    ELSE body
\* textType: contentType.toLowerCase().includes("grpc-web-text")
maybeDecodeGrpcWebText(body, textType) ==
    IF ~textType /\ ~isProbablyBase64Body(body) THEN body
    ELSE decodedOrBody(body, compactText(body))

\* encodeGrpcWebFrame: flag 0, the length in 4 bytes, the payload
encodeGrpcWebFrame(data) ==
    << 0,
       (Len(data) \div 16777216) % 256,
       (Len(data) \div 65536) % 256,
       (Len(data) \div 256) % 256,
       Len(data) % 256 >> \o data

\* (b1 << 24) | (b2 << 16) | (b3 << 8) | b4 as a signed 32-bit number
frameLength(b1, b2, b3, b4) ==
    (IF b1 >= 128 THEN b1 - 256 ELSE b1) * 16777216 + b2 * 65536 + b3 * 256 + b4

\* throw new Error("grpc-web compressed frame is not supported"): no result
Thrown == [threw |-> TRUE]

\* the frame loop of parseGrpcWebResponse from `offset` on: [messages, threw]
RECURSIVE parseFrames_CompressedFirst(_, _, _)
parseFrames_CompressedFirst(body, offset, msgs) ==
    IF offset + 5 > Len(body) THEN [messages |-> msgs, threw |-> FALSE]
    ELSE LET flag == body[offset + 1]
             length == frameLength(body[offset + 2], body[offset + 3],
                                   body[offset + 4], body[offset + 5])
             start == offset + 5
         IN IF length < 0 \/ start + length > Len(body)
            THEN [messages |-> msgs, threw |-> FALSE]
            ELSE IF flag % 2 = 1 THEN Thrown
            ELSE IF flag >= 128 THEN parseFrames_CompressedFirst(body, start + length, msgs)
            ELSE parseFrames_CompressedFirst(body, start + length,
                      Append(msgs, SubSeq(body, start + 1, start + length)))
RECURSIVE parseFrames_StrictBound(_, _, _)
parseFrames_StrictBound(body, offset, msgs) ==
    IF offset + 5 > Len(body) THEN [messages |-> msgs, threw |-> FALSE]
    ELSE LET flag == body[offset + 1]
             length == frameLength(body[offset + 2], body[offset + 3],
                                   body[offset + 4], body[offset + 5])
             start == offset + 5
         IN IF length < 0 \/ start + length >= Len(body)
            THEN [messages |-> msgs, threw |-> FALSE]
            ELSE IF flag >= 128 THEN parseFrames_StrictBound(body, start + length, msgs)
            ELSE IF flag % 2 = 1 THEN Thrown
            ELSE parseFrames_StrictBound(body, start + length,
                      Append(msgs, SubSeq(body, start + 1, start + length)))
RECURSIVE parseFrames(_, _, _)
parseFrames(body, offset, msgs) ==
    IF offset + 5 > Len(body) THEN [messages |-> msgs, threw |-> FALSE]
    ELSE LET flag == body[offset + 1]
             length == frameLength(body[offset + 2], body[offset + 3],
                                   body[offset + 4], body[offset + 5])
             start == offset + 5
         IN IF length < 0 \/ start + length > Len(body)
            THEN [messages |-> msgs, threw |-> FALSE]
            ELSE IF flag >= 128 THEN parseFrames(body, start + length, msgs)
            ELSE IF flag % 2 = 1 THEN Thrown
            ELSE parseFrames(body, start + length,
                             Append(msgs, SubSeq(body, start + 1, start + length)))

parseGrpcWebResponse(body, textType) ==
    parseFrames(maybeDecodeGrpcWebText(body, textType), 0, <<>>)

\* ---- specification of the codec: one frame is encoded, then parsed ----
MaxPayload == 2
\* NUL, line feed, "=", "A", 0x80
PayloadBytes == {0, 10, 61, 65, 128}
Payloads == UNION {[1..n -> PayloadBytes] : n \in 0..MaxPayload}
\* content types: none, application/grpc-web+proto, application/grpc-web-text
ContentTypes == {"", "application/grpc-web+proto", "application/grpc-web-text"}
isTextType(contentType) == contentType = "application/grpc-web-text"

InitGrpc ==
    /\ RaceIdle
    /\ RateIdle
    /\ FlowIdle
    /\ CardIdle
    /\ StoreIdle
    /\ StreamIdle
    /\ HashIdle
    /\ grpcBody = <<>>
    /\ grpcOp = [op |-> "none"]

EncodeFrame ==
    \E payload \in Payloads :
        /\ grpcOp.op = "none"
        /\ grpcBody' = encodeGrpcWebFrame(payload)
        /\ grpcOp' = [op |-> "encodeGrpcWebFrame", payload |-> payload]
        /\ UNCHANGED notGrpc

\* a response body arrives from the network: up to MaxWireFrames frames,
\* the last of them possibly cut short, or a base64 text
MaxWireFrames == 2
WireFrames ==
    { <<flag, 0, 0, 0, Len(data)>> \o data : flag \in {0, 1, 128, 129}, data \in {<<>>, <<65>>} }
RECURSIVE WireBodiesOf(_)
WireBodiesOf(n) ==
    IF n = 0 THEN {<<>>}
    ELSE WireBodiesOf(n - 1)
            \cup {b \o f : b \in WireBodiesOf(n - 1), f \in WireFrames}
\* "AAAAAAAA" and "AQAAAAAA": the base64 texts of a frame with flag 0 and
\* of a frame with flag 1 (each followed by one more byte)
TextBodies == { <<65, 65, 65, 65, 65, 65, 65, 65>>, <<65, 81, 65, 65, 65, 65, 65, 65>> }
WireBodies ==
    WireBodiesOf(MaxWireFrames)
        \cup {b \o <<1, 0, 0, 0, 2, 65>> : b \in WireBodiesOf(MaxWireFrames - 1)}
        \cup TextBodies

ReceiveBody ==
    \E body \in WireBodies :
        /\ grpcOp.op = "none"
        /\ grpcBody' = body
        /\ grpcOp' = [op |-> "receive", payload |-> <<>>]
        /\ UNCHANGED notGrpc

ParseResponse ==
    \E contentType \in ContentTypes :
        /\ grpcOp.op \in {"encodeGrpcWebFrame", "receive"}
        /\ grpcOp' = [op |-> "parseGrpcWebResponse", payload |-> grpcOp.payload,
                      encoded |-> grpcOp.op = "encodeGrpcWebFrame",
                      contentType |-> contentType,
                      ret |-> parseGrpcWebResponse(grpcBody, isTextType(contentType))]
        /\ UNCHANGED grpcBody
        /\ UNCHANGED notGrpc

NextGrpc ==
    \/ EncodeFrame
    \/ ReceiveBody
    \/ ParseResponse

SpecGrpc == InitGrpc /\ [][NextGrpc]_vars

\* C20: parseGrpcWebResponse applied to encodeGrpcWebFrame(P) returns
\* messages = [P], for every payload P.
C20_RoundTrip ==
    (grpcOp.op = "parseGrpcWebResponse" /\ grpcOp.encoded) =>
        /\ ~grpcOp.ret.threw
        /\ grpcOp.ret.messages = <<grpcOp.payload>>

\* the frame of a payload made of base64 characters only was parsed with no
\* content type
C20_Witness ==
    /\ grpcOp.op = "parseGrpcWebResponse"
    /\ grpcOp.encoded
    /\ grpcOp.contentType = ""
    /\ Len(grpcOp.payload) = 2
    /\ isProbablyBase64Body(grpcOp.payload)
    /\ grpcOp.ret.messages = <<grpcOp.payload>>

(***************************************************************************)
(* Account settings flow (accountSettings.ts 134-256).  The answer of the  *)
(* remote end to a request is an outcome: the fetch raised, or it gave an  *)
(* HTTP status and, for a gRPC-web call, a grpc-status (NoStatus: none).   *)
(***************************************************************************)
NoStatus == -1
HttpStatuses == {200, 204, 500}
GrpcStatuses == {NoStatus, 0, 7}
Raised == [raised |-> TRUE]
GrpcOutcomes ==
    {Raised} \cup { [raised |-> FALSE, status |-> st, grpcStatus |-> g] :
                      st \in HttpStatuses, g \in GrpcStatuses }
RestOutcomes ==
    {Raised} \cup { [raised |-> FALSE, status |-> st, grpcStatus |-> NoStatus] :
                      st \in HttpStatuses }

\* response.ok
responseOk(status) == status >= 200 /\ status <= 299

\* callGrpcStep: the step result for the outcome of the request
callGrpcStep(step, outcome) ==
    IF outcome.raised THEN [step |-> step, ok |-> FALSE, status |-> NoStatus,
                            grpc_status |-> NoStatus]
    ELSE [step |-> step,
          ok |-> responseOk(outcome.status) /\ outcome.grpcStatus \in {NoStatus, 0},
          status |-> outcome.status, grpc_status |-> outcome.grpcStatus]

\* setBirthDate: a REST call that succeeds with status 200 or 204
setBirthDate(outcome) ==
    IF outcome.raised THEN [step |-> "set-birth", ok |-> FALSE, status |-> NoStatus,
                            grpc_status |-> NoStatus]
    ELSE [step |-> "set-birth", ok |-> outcome.status \in {200, 204},
          status |-> outcome.status, grpc_status |-> NoStatus]

\* where runAccountSettingsFlow goes after the result of a step
afterStep_NoShortCircuit(step, ok) ==
    IF step = "accept-tos" THEN "set-birth"
    ELSE IF step = "set-birth" THEN "nsfw"
    ELSE "done"
afterStep(step, ok) ==
    IF step = "accept-tos" THEN (IF ~ok THEN "done" ELSE "set-birth")
    ELSE IF step = "set-birth" THEN (IF ~ok THEN "done" ELSE "nsfw")
    ELSE "done"

\* steps.push(result), then return {ok, steps} or go on
pushStep(f, result) ==
    [f EXCEPT !.steps = Append(@, result),
              !.calls = Append(@, result.step),
              !.pc = afterStep(result.step, result.ok),
              !.ret = IF afterStep(result.step, result.ok) = "done"
                      THEN [ok |-> IF result.step = "nsfw" THEN result.ok ELSE FALSE,
                            steps |-> Append(f.steps, result)]
                      ELSE @]

NoReturn == [none |-> TRUE]
InitFlow ==
    /\ RaceIdle
    /\ RateIdle
    /\ CardIdle
    /\ StoreIdle
    /\ StreamIdle
    /\ HashIdle
    /\ GrpcIdle
    /\ \E birthDate \in {"absent", "2000-01-01"} :
          flow = [pc |-> "accept-tos", birthDate |-> birthDate, steps |-> <<>>,
                  calls |-> <<>>, ret |-> NoReturn]

SetTosAcceptedVersion ==
    /\ flow.pc = "accept-tos"
    /\ \E outcome \in GrpcOutcomes : flow' = pushStep(flow, callGrpcStep("accept-tos", outcome))
    /\ UNCHANGED notFlow

SetBirthDate ==
    /\ flow.pc = "set-birth"
    /\ \E outcome \in RestOutcomes : flow' = pushStep(flow, setBirthDate(outcome))
    /\ UNCHANGED notFlow

UpdateUserFeatureControls ==
    /\ flow.pc = "nsfw"
    /\ \E outcome \in GrpcOutcomes : flow' = pushStep(flow, callGrpcStep("nsfw", outcome))
    /\ UNCHANGED notFlow

NextFlow ==
    \/ SetTosAcceptedVersion
    \/ SetBirthDate
    \/ UpdateUserFeatureControls

SpecFlow == InitFlow /\ [][NextFlow]_vars

FlowOrder == <<"accept-tos", "set-birth", "nsfw">>

\* C21: the steps are attempted in the order accept-tos, set-birth, nsfw; no
\* step is attempted after one that returned ok = false; the steps returned
\* are the results of the attempted steps, in order; and the flow returns
\* ok = true exactly when all three steps returned ok = true.
C21_FlowShortCircuits ==
    flow.pc # "idle" =>
        /\ Len(flow.calls) <= 3
        /\ flow.calls = SubSeq(FlowOrder, 1, Len(flow.calls))
        /\ Len(flow.steps) = Len(flow.calls)
        /\ \A i \in 1..Len(flow.steps) :
              /\ flow.steps[i].step = flow.calls[i]
              /\ (i < Len(flow.steps) => flow.steps[i].ok)
        /\ (flow.pc = "done") = (flow.ret # NoReturn)
        /\ (flow.pc = "done" =>
              /\ flow.ret.steps = flow.steps
              /\ (flow.ret.ok = (Len(flow.steps) = 3
                                  /\ \A i \in 1..3 : flow.steps[i].ok)))
        /\ ((flow.pc # "done" /\ flow.steps # <<>>) => flow.steps[Len(flow.steps)].ok)

\* the flow has returned after set-birth failed with an HTTP status
C21_Witness ==
    /\ flow.pc = "done"
    /\ Len(flow.steps) = 2
    /\ flow.steps[2].status = 500
    /\ ~flow.ret.ok

\* the flags of the complete frames of a body, in order
RECURSIVE frameFlags(_, _)
frameFlags(body, offset) ==
    IF offset + 5 > Len(body) THEN <<>>
    ELSE IF frameLength(body[offset + 2], body[offset + 3], body[offset + 4], body[offset + 5]) < 0
    THEN <<>>
    ELSE IF offset + 5 + body[offset + 5] + 256 * body[offset + 4] > Len(body) THEN <<>>
    ELSE <<body[offset + 1]>>
            \o frameFlags(body, offset + 5 + frameLength(body[offset + 2], body[offset + 3],
                                                         body[offset + 4], body[offset + 5]))
HasBit(flag, bit) == (flag \div bit) % 2 = 1
decodedBody == maybeDecodeGrpcWebText(grpcBody, isTextType(grpcOp.contentType))

\* C22: parseGrpcWebResponse throws exactly when some complete frame of the
\* body, walked in order, has flag bit 0x01 set and bit 0x80 clear; when it
\* throws it returns no messages.
C22_CompressedFrameFails ==
    grpcOp.op = "parseGrpcWebResponse" =>
        /\ grpcOp.ret.threw =
              (\E i \in 1..Len(frameFlags(decodedBody, 0)) :
                  /\ HasBit(frameFlags(decodedBody, 0)[i], 1)
                  /\ ~HasBit(frameFlags(decodedBody, 0)[i], 128))
        /\ (grpcOp.ret.threw => grpcOp.ret = Thrown)

\* the parse of a body threw at its third frame, after a message frame and
\* a trailer frame whose flag has both bits set
C22_Witness ==
    /\ grpcOp.op = "parseGrpcWebResponse"
    /\ grpcOp.ret.threw
    /\ Len(frameFlags(decodedBody, 0)) = 2
    /\ frameFlags(decodedBody, 0)[1] = 129
    /\ frameFlags(decodedBody, 0)[2] = 1

\* ---------------------------------------------------------------------------
\* Rate-limit normaliser
\* ---------------------------------------------------------------------------

MAX_PARSE_DEPTH == 8

\* JSON values: a finite number, a string that is neither a number nor a
\* date, null, or a reference to an object of the payload
Num(n) == [t |-> "num", n |-> n]
Str == [t |-> "str"]
JsonNull == [t |-> "null"]
Ref(id) == [t |-> "ref", id |-> id]

\* the strategy of the model name "grok-4": aliases {"grok4"}, tokens {"grok"};
\* priority = total - index in the list of 6 token fields followed by the base fields
remainingPriority(key) == IF key = "remaining" THEN 9 ELSE 0
resetPriority(key) == IF key = "resetAt" THEN 12 ELSE 0
scoreByModelHints(key) == IF key = "grok" THEN 115 ELSE 0
isHintKey(key) == key = "grok"

toFiniteNumber(value) == IF value.t = "num" THEN value.n ELSE None
normalizeTimestamp(value, clock) ==
    IF toFiniteNumber(value) = None \/ toFiniteNumber(value) < 0 THEN None
    ELSE IF toFiniteNumber(value) > 0 THEN clock + toFiniteNumber(value) * 1000
    ELSE None

Call(fn, value, keyHint, field, depth, score) ==
    [fn |-> fn, value |-> value, keyHint |-> keyHint, field |-> field,
     depth |-> depth, score |-> score]

pushRemainingCandidate(r, value, score) ==
    IF toFiniteNumber(value) = None THEN r
    ELSE [r EXCEPT !.remaining = Append(@, [value |-> toFiniteNumber(value), score |-> score])]

pushResetCandidate(r, value, score) ==
    IF normalizeTimestamp(value, r.now) = None THEN r
    ELSE [r EXCEPT !.resetAt = Append(@, [value |-> normalizeTimestamp(value, r.now), score |-> score])]

\* the calls walkMatchedValue makes for the entries of an array or a record
RECURSIVE matchedCalls(_, _, _)
matchedCalls(node, i, c) ==
    IF i > Len(node.entries) THEN <<>>
    ELSE <<Call("walkMatchedValue", node.entries[i].value,
                IF node.arr THEN c.keyHint ELSE node.entries[i].key, c.field, c.depth + 1,
                IF node.arr THEN c.score - 1
                ELSE c.score + scoreByModelHints(node.entries[i].key)
                       + 4 * (IF c.field = "remaining" THEN remainingPriority(node.entries[i].key)
                                                      ELSE resetPriority(node.entries[i].key)))>>
         \o matchedCalls(node, i + 1, c)

\* the calls walkNode makes for one entry of a record, in the order of the code
entryCalls(e, c) ==
    (IF remainingPriority(e.key) > 0
     THEN <<Call("walkMatchedValue", e.value, e.key, "remaining", c.depth + 1,
                 c.score + scoreByModelHints(e.key) + remainingPriority(e.key) * 5)>>
     ELSE <<>>)
    \o (IF resetPriority(e.key) > 0
        THEN <<Call("walkMatchedValue", e.value, e.key, "resetAt", c.depth + 1,
                    c.score + scoreByModelHints(e.key) + resetPriority(e.key) * 5)>>
        ELSE <<>>)
    \o (IF isHintKey(e.key)
        THEN <<Call("pushRemainingCandidate", e.value, e.key, "remaining", c.depth,
                    c.score + scoreByModelHints(e.key) + 30)>>
        ELSE <<>>)
    \o <<Call("walkNode", e.value, "", "", c.depth + 1, c.score + scoreByModelHints(e.key) - 1)>>

RECURSIVE nodeCalls(_, _, _)
nodeCalls(node, i, c) ==
    IF i > Len(node.entries) THEN <<>>
    ELSE (IF node.arr
          THEN <<Call("walkNode", node.entries[i].value, "", "", c.depth + 1, c.score - 1)>>
          ELSE entryCalls(node.entries[i], c))
         \o nodeCalls(node, i + 1, c)

\* candidates.sort((a, b) => b.score - a.score)[0]: the first of the best
pickBest(candidates) ==
    IF candidates = <<>> THEN None
    ELSE LET best == CHOOSE i \in 1..Len(candidates) :
                        /\ \A j \in 1..Len(candidates) : candidates[j].score <= candidates[i].score
                        /\ \A j \in 1..(i - 1) : candidates[j].score < candidates[i].score
         IN candidates[best].value

normalizedResult_RemainingOnly(remaining, resetAt) ==
    [known |-> remaining # None, remaining |-> remaining, resetAt |-> resetAt]

normalizedResult(remaining, resetAt) ==
    [known |-> remaining # None \/ resetAt # None, remaining |-> remaining, resetAt |-> resetAt]

\* ---- payloads ----
MaxNodes == 2
DeepNodes == 10
RateKeys == {"remaining", "resetAt", "grok", "data"}
RateClocks == {1000}
NodeValues(n) == {Num(5), Str} \cup {Ref(id) : id \in 1..n}
NodeShapes(n) ==
    {[arr |-> FALSE, entries |-> <<[key |-> k, value |-> v]>>] : k \in RateKeys, v \in NodeValues(n)}
        \cup {[arr |-> TRUE, entries |-> <<[key |-> "", value |-> v]>>] : v \in NodeValues(n)}
        \cup {[arr |-> FALSE, entries |-> <<[key |-> "resetAt", value |-> Num(5)],
                                            [key |-> "data", value |-> Ref(id)]>>] : id \in 1..n}
\* arrays nested DeepNodes deep around a record {"remaining": 5}
DeepHeap ==
    [id \in 1..DeepNodes |->
        IF id < DeepNodes THEN [arr |-> TRUE, entries |-> <<[key |-> "", value |-> Ref(id + 1)]>>]
        ELSE [arr |-> FALSE, entries |-> <<[key |-> "remaining", value |-> Num(5)]>>]]
Payloads23 ==
    {[root |-> Ref(1), heap |-> h] : h \in [1..MaxNodes -> NodeShapes(MaxNodes)]}
        \cup {[root |-> Ref(1), heap |-> DeepHeap]}
        \cup {[root |-> v, heap |-> <<>>] : v \in {JsonNull, Num(5), Str}}

InitRate ==
    /\ RaceIdle
    /\ CardIdle
    /\ StoreIdle
    /\ StreamIdle
    /\ HashIdle
    /\ GrpcIdle
    /\ FlowIdle
    /\ \E payload \in Payloads23, clock \in RateClocks :
          rl = [pc |-> "walk", payload |-> payload, now |-> clock,
                stack |-> <<Call("walkNode", payload.root, "", "", 0, 0)>>,
                seen |-> {}, remaining |-> <<>>, resetAt |-> <<>>]

WalkNode ==
    /\ rl.pc = "walk"
    /\ rl.stack # <<>>
    /\ rl.stack[1].fn = "walkNode"
    /\ LET c == rl.stack[1]
       IN IF \/ c.depth > MAX_PARSE_DEPTH
             \/ c.value.t # "ref"
             \/ c.value.id \in rl.seen
          THEN rl' = [rl EXCEPT !.stack = Tail(@)]
          ELSE rl' = [rl EXCEPT !.seen = @ \cup {c.value.id},
                                !.stack = nodeCalls(rl.payload.heap[c.value.id], 1, c) \o Tail(@)]
    /\ UNCHANGED notRate

WalkMatchedValue ==
    /\ rl.pc = "walk"
    /\ rl.stack # <<>>
    /\ rl.stack[1].fn = "walkMatchedValue"
    /\ LET c == rl.stack[1]
           pushed == IF c.field = "remaining" THEN pushRemainingCandidate(rl, c.value, c.score)
                     ELSE pushResetCandidate(rl, c.value, c.score)
       IN IF c.depth > MAX_PARSE_DEPTH
          THEN rl' = [rl EXCEPT !.stack = Tail(@)]
          ELSE IF c.value.t # "ref"
          THEN rl' = [pushed EXCEPT !.stack = Tail(@)]
          ELSE rl' = [pushed EXCEPT !.stack = matchedCalls(rl.payload.heap[c.value.id], 1, c) \o Tail(@)]
    /\ UNCHANGED notRate

PushHintCandidate ==
    /\ rl.pc = "walk"
    /\ rl.stack # <<>>
    /\ rl.stack[1].fn = "pushRemainingCandidate"
    /\ rl' = [pushRemainingCandidate(rl, rl.stack[1].value, rl.stack[1].score) EXCEPT !.stack = Tail(@)]
    /\ UNCHANGED notRate

NormalizeReturn ==
    /\ rl.pc = "walk"
    /\ rl.stack = <<>>
    /\ rl' = [pc |-> "done", payload |-> rl.payload, now |-> rl.now,
              remaining |-> rl.remaining, resetAt |-> rl.resetAt, seen |-> rl.seen,
              ret |-> normalizedResult(pickBest(rl.remaining), pickBest(rl.resetAt))]
    /\ UNCHANGED notRate

NextRate ==
    \/ WalkNode
    \/ WalkMatchedValue
    \/ PushHintCandidate
    \/ NormalizeReturn

SpecRate == InitRate /\ [][NextRate]_vars
\* the walk is synchronous code: it runs on until it returns
SpecRateLive == SpecRate /\ WF_vars(NextRate)

\* C23: for every payload, also nested deeper than 8 or cyclic, the
\* normaliser returns, and the result has known = TRUE exactly when remaining
\* or resetAt is not null; a null payload gives known = FALSE.
C23_NormaliserTotal ==
    /\ <>(rl.pc = "done")
    /\ [](rl.pc = "done" =>
            /\ rl.ret.known = (rl.ret.remaining # None \/ rl.ret.resetAt # None)
            /\ (rl.payload.root = JsonNull => ~rl.ret.known))

\* the walk of a payload whose object refers to itself returned with a
\* reset time and no remaining
C23_Witness ==
    /\ rl.pc = "done"
    /\ rl.payload.root = Ref(1)
    /\ Len(rl.payload.heap) = MaxNodes
    /\ Len(rl.payload.heap[1].entries) = 2
    /\ rl.payload.heap[1].entries[2].value = Ref(1)
    /\ rl.ret.known
    /\ rl.ret.remaining = None
    /\ rl.ret.resetAt = rl.now + 5000

\* a cleanupExpired step deleted the n expired rows that expire first, or
\* all of them when there are fewer, and returned their number
CleanupDeletes(n) ==
    LET expired == {r \in rows : r.expires_at <= storeOp'.atMs}
        deleted == rows \ rows'
    IN /\ rows' \subseteq rows
       /\ deleted \subseteq expired
       /\ Cardinality(deleted) = Min2(n, Cardinality(expired))
       /\ storeOp'.ret = Cardinality(deleted)
       /\ \A q \in deleted, r \in expired \ deleted : q.expires_at <= r.expires_at

clamp(x, lo, hi) == Max2(lo, Min2(hi, x))

RaceKeys == {<<"A", 1>>, <<"A", 2>>}
RaceLimits == {1, 2}
RaceKeeps == {1, 2}
NoRequest == [pc |-> "idle"]
\* what the store and its requests leave alone
notSweep == <<cardVars, streamVars, hashVars, grpcVars, flowVars, rateVars>>

InitSweep ==
    /\ CardIdle
    /\ StreamIdle
    /\ HashIdle
    /\ GrpcIdle
    /\ FlowIdle
    /\ RateIdle
    /\ rows = {}
    /\ storeOp = [op |-> "none"]
    /\ inflight = [cleanup |-> NoRequest, trim |-> NoRequest]

\* upsertConversation by another request: one statement
SweepUpsert ==
    \E key \in RaceKeys, token \in Tokens, updIn \in {1, 2}, expires \in ExpiryInputs,
       clock \in ClockValues :
        /\ rows' = upsertRows(rows, key, token, <<"h1">>, None, updIn, expires, clock)
        /\ storeOp' = [op |-> "upsert", scope |-> key[1]]
        /\ UNCHANGED inflight
        /\ UNCHANGED notSweep

\* cleanupExpiredConversations up to the SELECT; `if (!rows.length) return 0`
CleanupSelect ==
    \E limit \in RaceLimits, atMs \in NowValues :
        LET expired == {r \in rows : r.expires_at <= atMs}
        IN \E ord \in {f \in Orderings(expired) :
                        \A i, j \in 1..Len(f) : i < j => f[i].expires_at <= f[j].expires_at} :
            LET n == Min2(cleanupBatch(limit), Len(ord))
                selected == [i \in 1..n |-> RowKey(ord[i])]
            IN /\ inflight.cleanup = NoRequest
               /\ IF n = 0
                  THEN /\ storeOp' = [op |-> "cleanupDone", atMs |-> atMs, ret |-> 0]
                       /\ UNCHANGED inflight
                  ELSE /\ inflight' = [inflight EXCEPT !.cleanup =
                                          [pc |-> "selected", atMs |-> atMs, keys |-> selected]]
                       /\ storeOp' = [op |-> "cleanupSelect"]
               /\ UNCHANGED rows
               /\ UNCHANGED notSweep

\* db.batch(deletes): DELETE ... WHERE scope = ? AND openai_conversation_id = ?
\* for every selected key; return rows.length
CleanupDelete ==
    /\ inflight.cleanup.pc = "selected"
    /\ rows' = {r \in rows : \A i \in 1..Len(inflight.cleanup.keys) :
                                RowKey(r) # inflight.cleanup.keys[i]}
    /\ storeOp' = [op |-> "cleanupDone", atMs |-> inflight.cleanup.atMs,
                   ret |-> Len(inflight.cleanup.keys)]
    /\ inflight' = [inflight EXCEPT !.cleanup = NoRequest]
    /\ UNCHANGED notSweep

\* trimConversationsForToken up to the SELECT; `if (rows.length <= keepCount) return 0`
TrimSelect ==
    \E scope \in {"A"}, token \in Tokens, keep \in RaceKeeps :
        LET matching == {r \in rows : r.scope = scope /\ r.token = token}
        IN \E ord \in {f \in Orderings(matching) :
                        \A i, j \in 1..Len(f) : i < j => f[i].updated_at >= f[j].updated_at} :
            /\ inflight.trim = NoRequest
            /\ IF Len(ord) <= keepCount(keep)
               THEN /\ storeOp' = [op |-> "trimDone", scope |-> scope, token |-> token,
                                   keep |-> keep, ret |-> 0]
                    /\ UNCHANGED inflight
               ELSE /\ inflight' = [inflight EXCEPT !.trim =
                                       [pc |-> "selected", scope |-> scope, token |-> token,
                                        keep |-> keep,
                                        stale |-> [i \in 1..(Len(ord) - keepCount(keep)) |->
                                                      ord[keepCount(keep) + i].openai_conversation_id]]]
                    /\ storeOp' = [op |-> "trimSelect"]
            /\ UNCHANGED rows
            /\ UNCHANGED notSweep

\* db.batch(deletes) for the stale ids; return stale.length
TrimDelete ==
    /\ inflight.trim.pc = "selected"
    /\ rows' = {r \in rows : ~(/\ r.scope = inflight.trim.scope
                               /\ \E i \in 1..Len(inflight.trim.stale) :
                                     r.openai_conversation_id = inflight.trim.stale[i])}
    /\ storeOp' = [op |-> "trimDone", scope |-> inflight.trim.scope,
                   token |-> inflight.trim.token, keep |-> inflight.trim.keep,
                   ret |-> Len(inflight.trim.stale)]
    /\ inflight' = [inflight EXCEPT !.trim = NoRequest]
    /\ UNCHANGED notSweep

NextSweep ==
    \/ SweepUpsert
    \/ CleanupSelect
    \/ CleanupDelete
    \/ TrimSelect
    \/ TrimDelete

SpecSweep == InitSweep /\ [][NextSweep]_vars

\* C25: the delete batch of cleanupExpired deletes only rows that are
\* expired at the time of the call, also when an upsert renewed a selected
\* row after the select.
C25_CleanupDeletesOnlyExpired ==
    [][inflight.cleanup.pc = "selected" /\ inflight'.cleanup = NoRequest =>
          \A r \in rows \ rows' : r.expires_at <= inflight.cleanup.atMs]_vars

\* C26: the deletes of trimForToken delete rows of the pair only, never one
\* of the `keep` rows of the pair with the greatest updated_at, leave at most
\* `keep` rows of the pair and return the number of rows deleted, also when
\* an upsert ran after the read of the row list.
C26_TrimKeepsMostRecent ==
    [][inflight.trim.pc = "selected" /\ inflight'.trim = NoRequest =>
          LET t == inflight.trim
              pair == {r \in rows : r.scope = t.scope /\ r.token = t.token}
              deleted == rows \ rows'
          IN /\ deleted \subseteq pair
             /\ \A q \in deleted :
                   Cardinality({r \in pair \ {q} : r.updated_at >= q.updated_at}) >= t.keep
             /\ Cardinality(pair \ deleted) <= t.keep
             /\ storeOp'.ret = Cardinality(deleted)]_vars

\* ---- two upsert requests that race ----
\* a request reads the clock and binds its statement, then awaits dbRun; the
\* statement itself is atomic
Requests == {1, 2}
RaceClocks == {2, 3}
UpsertInputs ==
    { [token |-> "t1", history_hash |-> <<" ", "h1">>, created_at |-> None, updated_at |-> None,
       expires_at |-> 2],
      [token |-> "t2", history_hash |-> <<"h2">>, created_at |-> 1, updated_at |-> 1,
       expires_at |-> 3],
      [token |-> "t1", history_hash |-> <<>>, created_at |-> None, updated_at |-> 1,
       expires_at |-> 3] }

InitUpserts ==
    /\ CardIdle
    /\ StreamIdle
    /\ HashIdle
    /\ GrpcIdle
    /\ FlowIdle
    /\ RateIdle
    /\ rows = {}
    /\ storeOp = [op |-> "none"]
    /\ inflight = [ups |-> [u \in Requests |-> NoRequest], clock |-> 2,
                   born |-> [k \in RaceKeys |-> None]]

\* upsertConversation up to dbRun: createdAt, updatedAt, historyHash are computed
UpsertBind(u) ==
    \E key \in RaceKeys, row \in UpsertInputs, clock \in RaceClocks :
        /\ inflight.ups[u] = NoRequest
        /\ clock >= inflight.clock
        /\ inflight' = [inflight EXCEPT !.clock = clock,
                                        !.ups[u] = [pc |-> "bound", key |-> key, row |-> row,
                                                    nowMs |-> clock]]
        /\ UNCHANGED storeVars
        /\ UNCHANGED notSweep

\* the INSERT ... ON CONFLICT DO UPDATE statement of the request runs
UpsertRun(u) ==
    /\ inflight.ups[u].pc = "bound"
    /\ LET q == inflight.ups[u]
           existed == \E r \in rows : RowKey(r) = q.key
       IN /\ rows' = upsertRows(rows, q.key, q.row.token, q.row.history_hash, q.row.created_at,
                                q.row.updated_at, q.row.expires_at, q.nowMs)
          /\ storeOp' = [op |-> "upsertRun", key |-> q.key, existed |-> existed,
                         raced |-> \E v \in Requests \ {u} :
                                      /\ inflight.ups[v].pc = "bound"
                                      /\ inflight.ups[v].key = q.key]
          /\ inflight' = [inflight EXCEPT
                             !.ups[u] = NoRequest,
                             !.born[q.key] =
                                 IF existed THEN @
                                 ELSE IF q.row.created_at # None THEN q.row.created_at
                                 ELSE q.nowMs]
    /\ UNCHANGED notSweep

NextUpserts ==
    \/ \E u \in Requests : UpsertBind(u)
    \/ \E u \in Requests : UpsertRun(u)

SpecUpserts == InitUpserts /\ [][NextUpserts]_vars

\* the statement of request u ran on a key that had a row: one row of the key
\* is left, with the given history_hash and updated_at, the token and
\* expires_at of the request and the created_at of the first insert; the
\* other rows are as before
UpsertReplaces(u, historyHash, updatedAt) ==
    LET q == inflight.ups[u]
        mine == {r \in rows' : RowKey(r) = q.key}
    IN /\ Cardinality(mine) = 1
       /\ \A r \in mine :
             /\ r.token = q.row.token
             /\ r.history_hash = historyHash
             /\ r.updated_at = updatedAt
             /\ r.expires_at = q.row.expires_at
             /\ r.created_at = inflight.born[q.key]
       /\ {r \in rows' : RowKey(r) # q.key} = {r \in rows : RowKey(r) # q.key}

RunsOnExisting(u) ==
    /\ inflight.ups[u].pc = "bound"
    /\ inflight'.ups[u] = NoRequest
    /\ \E r \in rows : RowKey(r) = inflight.ups[u].key

FindPurgesAndReturns(hash) ==
    LET scope == storeOp'.scope
        atMs == storeOp'.atMs
        live == {r \in rows : r.scope = scope /\ r.expires_at > atMs /\ r.history_hash = hash}
    IN /\ rows' = {r \in rows : ~(r.scope = scope /\ r.expires_at <= atMs)}
       /\ IF live = {} THEN storeOp'.ret = Null
          ELSE /\ storeOp'.ret \in live
               /\ \A q \in live : storeOp'.ret.updated_at >= q.updated_at

\* C28 as stated: findByHistoryHash(scope, hash, now) removes every expired
\* row of the scope and returns the live row of the scope with that
\* history_hash and the greatest updated_at, or null; for every hash passed.
C28_FindEveryHash ==
    [][storeOp'.op = "findByHistoryHash" => FindPurgesAndReturns(storeOp'.hash)]_vars

\* C28 amended: that holds for the hash trimmed of white space when it is
\* not empty; for an empty hash the call returns null and removes nothing.
C28_FindTrimmedHash ==
    [][storeOp'.op = "findByHistoryHash" =>
          IF Trim(storeOp'.hash) = <<>>
          THEN rows' = rows /\ storeOp'.ret = Null
          ELSE FindPurgesAndReturns(Trim(storeOp'.hash))]_vars

\* a lookup with white space around the hash returned the newer of two live
\* rows of the scope that carry the hash
C28_Witness ==
    /\ storeOp.op = "findByHistoryHash"
    /\ storeOp.hash # Trim(storeOp.hash)
    /\ storeOp.ret # Null
    /\ \E r \in rows :
          /\ r.scope = storeOp.scope
          /\ r.history_hash = storeOp.ret.history_hash
          /\ r.expires_at > storeOp.atMs
          /\ r.updated_at < storeOp.ret.updated_at

\* ---------------------------------------------------------------------------
\* A parser that is handed its whole input in one consume call, then flushed
\* ---------------------------------------------------------------------------
BrokenCard == TOOL_USAGE_OPEN \o <<">", "a">> \o TOOL_USAGE_CLOSE
UpperCard ==
    <<"<", "XAI:", "TOOL_NAME>", "b">> \o TOOL_NAME_CLOSE
        \o TOOL_ARGS_OPEN \o CDATA_OPEN \o <<JsonRollout>> \o CDATA_CLOSE \o TOOL_ARGS_CLOSE
\* plain text and complete fragments
WholeSegments ==
    { <<"a">>, <<" ">>, UsageCard, NameCard, NameCard \o TOOL_USAGE_CLOSE,
      NameCard \o <<" ">> \o TOOL_USAGE_CLOSE, BrokenCard, UpperCard, MultiCard, BlankCard }
WholeSeqs == UNION {[1..n -> WholeSegments] : n \in 1..MaxSegs}

InitWhole ==
    /\ StoreIdle
    /\ StreamIdle
    /\ HashIdle
    /\ GrpcIdle
    /\ FlowIdle
    /\ RateIdle
    /\ RaceIdle
    /\ cardInput \in {Concat(ss) : ss \in WholeSeqs}
    /\ cardEmit \in BOOLEAN
    /\ cardPos = 0
    /\ cardBuffer = <<>>
    /\ cardText = <<>>
    /\ cardLines = <<>>
    /\ cardPc = "whole"

\* parser.consume(input, opts)
ConsumeWhole ==
    /\ cardPc = "whole"
    /\ LET r == consume(cardBuffer, cardInput, cardEmit, CardFallback)
       IN /\ cardBuffer' = r.buffer
          /\ cardText' = cardText \o r.text
          /\ cardLines' = cardLines \o r.lines
    /\ cardPos' = Len(cardInput)
    /\ cardPc' = "feed"
    /\ UNCHANGED <<cardInput, cardEmit>>
    /\ UNCHANGED notCard

NextWhole == ConsumeWhole \/ CardFlush

SpecWhole == InitWhole /\ [][NextWhole]_vars

\* what a segment is: plain text, a fragment that does not parse, or a card
\* with its rollout id, its type and its non-empty content lines
IsCardSegment(seg) == seg \notin {<<"a">>, <<" ">>, BrokenCard}
CardPrefix(seg) ==
    IF seg = UpperCard THEN <<"[", "r9", "]", "[", "b", "]">>
    ELSE IF seg \in {MultiCard, BlankCard} THEN <<"[", "r1", "]", "[", "b", "]">>
    ELSE <<"[", "r1", "]", "[", "WebSearch", "]">>
CardContent(seg) ==
    IF seg = UpperCard THEN << <<"x">> >>
    ELSE IF seg = MultiCard THEN << <<"p">>, <<"q">> >>
    ELSE IF seg = BlankCard THEN << >>
    ELSE << <<"foo">> >>

\* "[rolloutId][type] line" for every content line, the prefix alone without one
LineEntries(seg) ==
    IF CardContent(seg) = << >> THEN <<CardPrefix(seg)>>
    ELSE [i \in 1..Len(CardContent(seg)) |-> CardPrefix(seg) \o <<" ">> \o CardContent(seg)[i]]
RECURSIVE JoinEntries(_)
JoinEntries(entries) ==
    IF Len(entries) = 1 THEN entries[1]
    ELSE entries[1] \o <<"\n">> \o JoinEntries(Tail(entries))

RECURSIVE WholeText(_)
WholeText(ss) ==
    IF ss = <<>> THEN <<>>
    ELSE (IF IsCardSegment(Head(ss)) THEN <<>> ELSE Head(ss)) \o WholeText(Tail(ss))
\* one entry per content line
RECURSIVE LinePerEntry(_)
LinePerEntry(ss) ==
    IF ss = <<>> THEN <<>>
    ELSE (IF IsCardSegment(Head(ss)) THEN LineEntries(Head(ss)) ELSE <<>>) \o LinePerEntry(Tail(ss))
\* one entry per card
RECURSIVE EntryPerCard(_)
EntryPerCard(ss) ==
    IF ss = <<>> THEN <<>>
    ELSE (IF IsCardSegment(Head(ss)) THEN <<JoinEntries(LineEntries(Head(ss)))>> ELSE <<>>)
            \o EntryPerCard(Tail(ss))

\* C29 as stated: of an input made of plain text and complete fragments,
\* every fragment that parses yields, with emitLines, one entry
\* "[rolloutId][type] line" per non-empty content line (the prefix alone for
\* an empty content) and nothing without emitLines; the text is the plain
\* text and the fragments that do not parse, verbatim, each once.
C29_EntryPerLine ==
    cardPc \in {"feed", "flushed"} =>
        \A ss \in WholeSeqs :
            Concat(ss) = cardInput =>
                /\ cardText = WholeText(ss)
                /\ cardLines = (IF cardEmit THEN LinePerEntry(ss) ELSE <<>>)

\* C29 amended: the same with one entry per card, which holds the lines
\* "[rolloutId][type] line" of the card joined by "\n".
C29_EntryPerCard ==
    cardPc \in {"feed", "flushed"} =>
        \A ss \in WholeSeqs :
            Concat(ss) = cardInput =>
                /\ cardText = WholeText(ss)
                /\ cardLines = (IF cardEmit THEN EntryPerCard(ss) ELSE <<>>)

\* a fragment that does not parse, then a card with two content lines
C29_Witness ==
    /\ cardPc = "feed"
    /\ cardEmit
    /\ cardInput = BrokenCard \o MultiCard
    /\ cardText = BrokenCard
    /\ Len(cardLines) = 1

\* [DONE] is among the frames
DoneIn(out) == \E i \in 1..Len(out) : out[i] = makeDone
\* the content of the frames from position n on
RECURSIVE ContentFrom(_, _)
ContentFrom(out, n) ==
    IF n > Len(out) THEN <<>> ELSE out[n].content \o ContentFrom(out, n + 1)

\* C30: on every path that ends the stream, the text the tool-card parser
\* holds is emitted as content by the time [DONE] is enqueued (text of a
\* thinking frame only when thinking is shown).
C30_HeldTextBeforeDone ==
    [][("out" \in DOMAIN tr /\ "out" \in DOMAIN tr'
          /\ ~DoneIn(tr.out) /\ DoneIn(tr'.out)
          /\ tr.toolBuffer # <<>>
          /\ (cfg.showThinking \/ ~tr.lastIsThinking))
       => IndexOf(ContentFrom(tr'.out, Len(tr.out) + 1), tr.toolBuffer) >= 0]_vars


(***************************************************************************)
(* Finish chunks of the stream transformer (specification Spec).           *)
(***************************************************************************)
\* the positions of the chunks that carry a non-null finish_reason
FinishAt(out) == {i \in 1..Len(out) : out[i].finish_reason \notin {"null", "done"}}

\* C31: in a stream whose catch block has not run, at most one chunk
\* carries a non-null finish_reason, and the frame right after it is
\* [DONE]: nothing is emitted between the two, also when the image terminal
\* fires with a think wrapper open.
C31_FinishThenDone ==
    (pc # "idle" /\ ~tr.caught) =>
        /\ Cardinality(FinishAt(tr.out)) <= 1
        /\ \A i \in FinishAt(tr.out) : i < Len(tr.out) /\ IsDone(tr.out[i + 1])


(***************************************************************************)
(* Video progress (specification Spec).                                    *)
(***************************************************************************)
\* the step handles the frame named x, and no exception is caught in it: a
\* frame that triggers no onMeta is handled by the step that parses its
\* line, any other by the step in which onMeta returns
Handles(x) ==
    /\ \/ pc = "lines" /\ frames' = Append(frames, <<x, "}">>) /\ pc' # "awaitMeta"
       \/ pc = "awaitMeta" /\ curFrame = x /\ pc' # "awaitMeta"
    /\ ~tr'.caught

\* the contents of the chunks a step has added to the output
Emitted == [i \in 1..(Len(tr'.out) - Len(tr.out)) |-> tr'.out[Len(tr.out) + i].content]

\* C32: with showThinking, a video frame whose progress 100 exceeds the
\* last progress seen emits a chunk that holds "</think>" and leaves no
\* video think block open, the first progress frame of a stream included.
C32_FullProgressClosesThink ==
    [][(cfg.showThinking /\ ~cancelled /\ Handles("W")
          /\ FrameOf("W").progress > tr.lastVideoProgress)
       => /\ \E i \in DOMAIN Emitted : CountSym(Emitted[i], "</think>") > 0
          /\ ~tr'.videoProgressStarted]_vars


\* the video-progress lines in the contents a step has emitted
ProgressOf(content) ==
    IF \E k \in 1..Len(content) : content[k] = "video-progress"
    THEN {content[k + 1] : k \in {j \in 1..Len(content) - 1 : content[j] = "video-progress"}}
    ELSE {}

\* the percentages of the progress lines of an output, in order
RECURSIVE ProgressLines(_)
ProgressLines(out) ==
    IF out = <<>> THEN <<>>
    ELSE (IF ProgressOf(Head(out).content) = {} THEN <<>>
          ELSE <<CHOOSE p \in ProgressOf(Head(out).content) : TRUE>>)
         \o ProgressLines(Tail(out))

VideoFrames == {x \in FrameIds : FrameOf(x).video}
PercentValue(p) == CHOOSE x \in {FrameOf(y).progress : y \in VideoFrames} : ToString(x) = p

\* C33: a video frame whose progress does not exceed the highest progress
\* seen so far emits no progress line and changes no think state, and the
\* percentages of the progress lines emitted are strictly increasing.
C33_ProgressMonotone ==
    /\ [](pc # "idle" =>
            \A i, j \in DOMAIN ProgressLines(tr.out) :
                i < j => PercentValue(ProgressLines(tr.out)[i])
                           < PercentValue(ProgressLines(tr.out)[j]))
    /\ [][\A x \in VideoFrames :
            (Handles(x) /\ ~cancelled /\ FrameOf(x).progress <= tr.lastVideoProgress)
            => /\ \A i \in DOMAIN Emitted : ProgressOf(Emitted[i]) = {}
               /\ tr'.thinkTagOpen = tr.thinkTagOpen
               /\ tr'.videoProgressStarted = tr.videoProgressStarted
               /\ tr'.lastIsThinking = tr.lastIsThinking
               /\ tr'.lastVideoProgress = tr.lastVideoProgress]_vars

\* a stream has emitted the progress lines 50 and 100 and has then handled
\* a further video frame without a third line
C33_Witness ==
    /\ pc \in {"loop", "lines"}
    /\ Len(ProgressLines(tr.out)) = 2
    /\ Len(frames) >= 3
    /\ \A k \in 1..3 : frames[k][1] \in VideoFrames


(***************************************************************************)
(* The filtered-tags check and tool cards (specification Spec).            *)
(***************************************************************************)
HasCardOpen(token) ==
    IndexOf(token, TOOL_USAGE_OPEN) >= 0 \/ IndexOf(token, TOOL_NAME_OPEN) >= 0
CardFrames == {x \in FrameIds : HasCardOpen(FrameOf(x).token)}

\* what the parser gives when it is fed the token of frame x as it is
Unfiltered(x) ==
    consume(tr.toolBuffer, FrameOf(x).token, shouldEmitToolLines, tr'.lastToolRolloutId)

\* the step has fed the token of frame x to the parser and emitted the
\* parser's result
ParserSaw(x) ==
    /\ tr'.toolBuffer = Unfiltered(x).buffer
    /\ (cfg.showThinking /\ (Unfiltered(x).lines # <<>> \/ Unfiltered(x).text # <<>>))
        => \E i \in DOMAIN Emitted :
              IndexOf(Emitted[i], JoinLines(Unfiltered(x).lines) \o Unfiltered(x).text) >= 0

\* the tokens kept by the collector for the lines handled so far
KeptTokens == collectLoop(InitCollect, frames).tokenParts

\* C34: whatever filtered_tags holds, a token with a card-opening tag
\* passes the filtered-tags check: the text branch of the transformer feeds
\* it to the tool-card parser, and the collector keeps it.
C34_CardTokensPassFilter ==
    /\ [][\A x \in CardFrames :
            (Handles(x) /\ ~cancelled /\ ~tr.isImage) => ParserSaw(x)]_vars
    /\ [](pc # "idle" =>
            \A x \in CardFrames :
                (\E k \in DOMAIN frames : frames[k] = <<x, "}">>)
                => IndexOf(KeptTokens, FrameOf(x).token) >= 0)


(***************************************************************************)
(* Lines that are not JSON (specification Spec).                           *)
(***************************************************************************)
\* the line that the next round of the line loop cuts off the buffer
NextLine == Trim(Slice(tr.buffer, 0, IndexOf(tr.buffer, <<NL>>)))
\* the round handles a line that is not empty and fails JSON.parse
SkipsLine == pc = "lines" /\ NextLine # <<>> /\ ~JsonParse(NextLine).ok

\* C35: a line that fails JSON.parse changes nothing but the line buffer:
\* no chunk, no onMeta call, and meta, firstReceived, lastChunkTime, the
\* think state, the current model and the tool buffer stay as they were; so
\* while only such lines have come, no frame counts as received and the
\* idle timer has not been reset.
C35_BadLineHasNoEffect ==
    /\ [][SkipsLine => tr' = [tr EXCEPT !.buffer = tr'.buffer]]_vars
    /\ []((pc # "idle" /\ \A k \in DOMAIN frames : ~JsonParse(frames[k]).ok)
            => ~tr.firstReceived /\ tr.lastChunkTime = 0 /\ tr.metaCalls = <<>>)

\* lines that fail JSON.parse have come at a time later than the start, and
\* the first-response timeout has then ended the stream
C35_Witness ==
    /\ pc = "done"
    /\ tr.tripped = "first"
    /\ frames # <<>>
    /\ \A k \in DOMAIN frames : ~JsonParse(frames[k]).ok
    /\ now > 0


(***************************************************************************)
(* The status given to onFinish (specification Spec).                      *)
(***************************************************************************)
\* the status of the call of onFinish made by a step
Passed == tr'.finishCalls[Len(tr'.finishCalls)]

Earlier == IF pc = "awaitMeta" THEN SubSeq(frames, 1, Len(frames) - 1) ELSE frames

\* some frame of fs carries imageAttachmentInfo / carries it and is not a
\* video frame
SeenImageInfo(fs) ==
    \E k \in DOMAIN fs : JsonParse(fs[k]).ok /\ JsonParse(fs[k]).data.imageAttachmentInfo
SeenImageFrame(fs) ==
    \E k \in DOMAIN fs : /\ JsonParse(fs[k]).ok
                         /\ JsonParse(fs[k]).data.imageAttachmentInfo
                         /\ ~JsonParse(fs[k]).data.video

\* frames with result.response, without error.message, that are not video
\* frames: the text branch or the image branch handles them
ChatFrames ==
    {x \in FrameIds : FrameOf(x).hasResponse /\ FrameOf(x).errorMessage = "" /\ ~FrameOf(x).video}

\* the step has not run the text branch on frame x: the parser, the rollout
\* id and lastIsThinking are untouched and, unless the frame is the image
\* terminal, the think wrapper is as it was and the token, if any, was
\* emitted as it came
KeptOffTextBranch(x) ==
    /\ tr'.toolBuffer = tr.toolBuffer
    /\ tr'.lastToolRolloutId = tr.lastToolRolloutId
    /\ tr'.lastIsThinking = tr.lastIsThinking
    /\ tr'.cause # "image"
        => /\ tr'.thinkTagOpen = tr.thinkTagOpen
           /\ Emitted = (IF FrameOf(x).token # <<>> /\ FrameOf(x).modelResponse = "none"
                         THEN <<FrameOf(x).token>> ELSE <<>>)

\* C37 as stated: once any frame of the stream has carried
\* imageAttachmentInfo, no later frame is handled by the text branch.
C37_ImageModeSticky ==
    [][\A x \in ChatFrames :
          (Handles(x) /\ ~cancelled /\ SeenImageInfo(Earlier)) => KeptOffTextBranch(x)]_vars

\* C37 amended: once a frame that is not a video frame has carried
\* imageAttachmentInfo, no later frame is handled by the text branch.
C37_ImageModeStickyAfterChatFrame ==
    [][\A x \in ChatFrames :
          (Handles(x) /\ ~cancelled /\ SeenImageFrame(Earlier)) => KeptOffTextBranch(x)]_vars

\* after an image frame, a frame whose token ends with a possible card
\* start was emitted as it came, with nothing held back by the parser
C37_Witness ==
    /\ pc \in {"loop", "lines"}
    /\ tr.isImage
    /\ Len(frames) >= 2
    /\ frames[Len(frames) - 1] = <<"I", "}">>
    /\ frames[Len(frames)] = <<"P", "}">>
    /\ tr.out # <<>>
    /\ tr.out[Len(tr.out)].content = FrameOf("P").token
    /\ tr.toolBuffer = <<>>


(***************************************************************************)
(* Specification SpecPieces: one parser is fed, piece by piece, a text     *)
(* made of plain text, possible card starts and the parts of a card.       *)
(***************************************************************************)
NamePart == TOOL_NAME_OPEN \o <<"b">> \o TOOL_NAME_CLOSE
ArgsPart == TOOL_ARGS_OPEN \o CDATA_OPEN \o <<JsonQuery>> \o CDATA_CLOSE \o TOOL_ARGS_CLOSE
\* 64 characters of plain text
LongText == <<JsonRollout, JsonRollout>>

PieceSegments ==
    { <<"a">>, PARTIAL_MARKER, LongText, NamePart, ArgsPart, <<"<", "XAI:", "TOOL_NAME>">>,
      <<"a">> \o TOOL_USAGE_OPEN \o <<">">> }
PieceInputs == {Concat(ss) : ss \in UNION {[1..n -> PieceSegments] : n \in 1..MaxSegs}}

InitPieces ==
    /\ StoreIdle
    /\ StreamIdle
    /\ HashIdle
    /\ GrpcIdle
    /\ FlowIdle
    /\ RateIdle
    /\ RaceIdle
    /\ cardInput \in PieceInputs
    /\ cardEmit \in BOOLEAN
    /\ cardPos = 0
    /\ cardBuffer = <<>>
    /\ cardText = <<>>
    /\ cardLines = <<>>
    /\ cardPc = "feed"

NextPieces == CardConsume \/ CardFlush

SpecPieces == InitPieces /\ [][NextPieces]_vars

\* the buffer begins with a card-opening tag and the closing tags of that
\* card are not in it
OpenCard(lower) ==
    \/ /\ StartsWith(lower, TOOL_USAGE_OPEN)
       /\ IndexOf(lower, TOOL_USAGE_CLOSE) < 0
    \/ /\ StartsWith(lower, TOOL_NAME_OPEN)
       /\ ~\E i, j \in 0..Len(lower) :
             /\ MatchAt(lower, TOOL_NAME_CLOSE, i)
             /\ MatchAt(lower, TOOL_ARGS_CLOSE, j)
             /\ j >= i + Len(TOOL_NAME_CLOSE)

\* the buffer begins with "<xai:" and has at most 64 characters
ShortPartial(buffer) ==
    StartsWith(ToLowerCase(buffer), PARTIAL_MARKER) /\ StrLen(buffer) <= PartialWindow

\* C38: after every consume call the buffer is empty, or begins with a
\* card-opening tag whose closing tags have not arrived, or begins with
\* "<xai:" and has at most 64 characters; so it never begins with text that
\* precedes a possible card start.
C38_BufferShape ==
    (cardPc = "feed" /\ cardPos > 0) =>
        \/ cardBuffer = <<>>
        \/ OpenCard(ToLowerCase(cardBuffer))
        \/ ShortPartial(cardBuffer)

\* text was returned, and the parser holds an unfinished card of more than
\* 64 characters
C38_Witness ==
    /\ cardPc = "feed"
    /\ cardText # <<>>
    /\ OpenCard(ToLowerCase(cardBuffer))
    /\ StrLen(cardBuffer) > PartialWindow


(***************************************************************************)
(* Line framing at the end of the body (specification Spec).               *)
(***************************************************************************)
\* the part of a text or of a byte sequence up to its last "\n"
UpToLastNL(s) == Slice(s, 0, LastIndexOf(s, <<NL>>) + 1)
\* the lines of the bytes that end with "\n", trimmed, without the empty ones
CompleteLines(bytes) == splitLines(UpToLastNL(DecodeStream(<<>>, bytes, <<>>).text))

IsPrefix(a, b) == Len(a) <= Len(b) /\ a = SubSeq(b, 1, Len(a))

\* the body has ended, with no timeout, no exception and the client connected
EndedAtEof ==
    /\ pc \in {"awaitFinish", "done"}
    /\ tr.cause = "end"
    /\ ~tr.caught /\ ~cancelled

\* C39: the lines handled are, in order and once each, the newline-
\* terminated lines of the bytes received; when the body ends all of them
\* have been handled, and what follows the last newline has no effect: the
\* output and the onMeta calls are those of the body cut at its last
\* newline.
C39_LinesOnceTailDropped ==
    /\ pc # "idle" => IsPrefix(frames, CompleteLines(received))
    /\ EndedAtEof =>
          /\ frames = CompleteLines(received)
          /\ tr.out = flushStop(Whole(UpToLastNL(received))).out
          /\ tr.metaCalls = Whole(UpToLastNL(received)).metaCalls
          /\ tr.meta = Whole(UpToLastNL(received)).meta

\* a body has ended right after the frame b without its newline: the frame
\* is still in the line buffer, and two lines before it were handled
C39_Witness ==
    /\ EndedAtEof
    /\ tr.buffer = <<"N", "}">>
    /\ Len(frames) = 2


(***************************************************************************)
(* A response without a body (specification Spec).                         *)
(***************************************************************************)
\* C40: when the upstream response has no body, the output is the chunk
\* "Empty response" with finish_reason "error" and then [DONE], the stream
\* is closed, and neither onMeta nor onFinish has been called.
C40_EmptyResponse ==
    (pc # "idle" /\ tr.cause = "nobody") =>
        /\ pc = "done"
        /\ tr.out = <<makeChunk(DefaultModel, <<"Empty response">>, "error"), makeDone>>
        /\ tr.closed /\ ~tr.errored
        /\ tr.metaCalls = <<>>
        /\ tr.finishCalls = <<>>

\* start() has returned for a response without a body
C40_Witness ==
    /\ pc = "done"
    /\ tr.cause = "nobody"
    /\ Len(tr.out) = 2
    /\ tr.closed

====
